---- MODULE Spec2Model ----
\* Packaging and delivery core of auto_backup (src/auto_backup/core.py):
\* chunk splitter, upload orchestrator with primary/secondary failover,
\* remote directory provisioner, archiver and bin-packing splitter.
\*
\* Sizes are scaled so that file contents can be enumerated: the 50 MB of
\* MAX_SINGLE_FILE_SIZE and of CHUNK_SIZE are 3 units, the 500 MB of
\* MAX_SOURCE_DIR_SIZE are 6 units (the order of the three is kept).
\* Environment assumptions, stated once: deleting a file the process owns
\* (os.remove, shutil.rmtree) succeeds; directory creation, file copy and
\* the read/write of a fragment may fail; every network exchange may fail.
EXTENDS Integers, Sequences, FiniteSets, TLC

\* ---------------------------------------------------------------------
\* Program constants (config.py), scaled
\* ---------------------------------------------------------------------
MAX_SINGLE_FILE_SIZE == 3
CHUNK_SIZE == 3
RETRY_COUNT == 3
RETRY_DELAY == 30
MAX_SOURCE_DIR_SIZE == 6
NumServers == 5
UPLOAD_SERVERS == 1..NumServers

\* ---------------------------------------------------------------------
\* Bounds of the model: the largest local file, the number of files in a
\* source tree, the number of successive calls of the directory
\* provisioner, the depth of a remote path, the number of nested
\* activations the interpreter allows (sys.getrecursionlimit(), scaled).
\* ---------------------------------------------------------------------
MaxFileSize == 7
MaxFiles == 6
MaxCalls == 2
MaxDepth == 3
MaxRecursion == 6

Names == {"A", "B"}
Bytes == {0, 1}
NoPart == -1
NoStatus == -1
MaxParts == (MaxFileSize + CHUNK_SIZE - 1) \div CHUNK_SIZE
Paths == [name : Names, part : NoPart..(MaxParts - 1)]
Components == {"a"}
Dot == <<".">>
INFINI_REMOTE_BASE_DIR == <<"a">>

VARIABLES
  pc,          \* position of the single thread of control
  calls,       \* number of top-level calls made so far
  fs,          \* local files: path -> [ex, data]
  chunkDir,    \* whether the "chunks" directory exists
  remoteDirs,  \* collections that exist on the primary store
  ubArg, ubIsList, ubIdx, ubSuccess, ubRet, ubLog,
  ufPath, ufChunks, ufIdx, ufSuccess, ufRet, ufLog, ufFs0, ufNet,
  slPath, slCaller, slRet, slNum, slPos, slChunks,
  usPath, usCaller, usRet, usSize0, tierRet, attempt, server,
  storedBy,    \* providers that stored usPath during this delivery
  nProbe, nMkcol, nPut, nPost, putOK, postOK, lastResp, lastSleep,
  mkStack, mkRet, mkCaller, mkDir, mkFaithful, mkDirs0, mkPrev,
  mkStatus,    \* status of the last MKCOL of the call, NoStatus before it
  tree,        \* source tree as walked: tree[i] is the size of file i
  srcDir,      \* whether the source directory exists
  srcFiles,    \* files (indices of tree) still in the source directory
  archives,    \* archive files on disk: name -> size, NoFile if absent
  zbRet, sdRet, sdCaller,
  entry,       \* the packaging call under way and the source tree it found
  compressed_size, \* size zip_backup_folder read off its archive, or NoFile
  sorted_files, sdIdx, current_chunk, current_chunk_size, part_num,
  compressed_files,
  binLog,      \* the bins closed so far and what became of each
  threads      \* the locals of upload_file in each of the two uploading threads

ctlVars == <<pc, calls>>
fsVars == <<fs, chunkDir>>
remoteVars == <<remoteDirs>>
ubVars == <<ubArg, ubIsList, ubIdx, ubSuccess, ubRet, ubLog>>
ufVars == <<ufPath, ufChunks, ufIdx, ufSuccess, ufRet, ufLog, ufFs0, ufNet>>
slVars == <<slPath, slCaller, slRet, slNum, slPos, slChunks>>
usVars == <<usPath, usCaller, usRet, usSize0, tierRet, attempt, server,
           storedBy>>
netVars == <<nProbe, nMkcol, nPut, nPost, putOK, postOK, lastResp, lastSleep>>
mkVars == <<mkStack, mkRet, mkCaller, mkDir, mkFaithful, mkDirs0, mkPrev,
           mkStatus>>
packVars == <<tree, srcDir, srcFiles, archives, zbRet, sdRet, sdCaller,
              entry, compressed_size,
              sorted_files, sdIdx, current_chunk, current_chunk_size,
              part_num, compressed_files, binLog>>
thVars == <<threads>>
vars == <<ctlVars, fsVars, remoteVars, ubVars, ufVars, slVars, usVars,
          netVars, mkVars, packVars, thVars>>

\* ---------------------------------------------------------------------
\* Helpers
\* ---------------------------------------------------------------------
Min(a, b) == IF a <= b THEN a ELSE b

SeqsUpTo(S, n) == UNION {[1..k -> S] : k \in 0..n}

Absent == [ex |-> FALSE, data |-> <<>>]
File(d) == [ex |-> TRUE, data |-> d]
Orig(n) == [name |-> n, part |-> NoPart]
Frag(n, k) == [name |-> n, part |-> k]

Exists(f, p) == f[p].ex
Size(f, p) == Len(f[p].data)
Remove(f, p) == [f EXCEPT ![p] = Absent]

NoneRet == [isNone |-> TRUE, files |-> <<>>]
ListRet(l) == [isNone |-> FALSE, files |-> l]

Front(s) == SubSeq(s, 1, Len(s) - 1)

\* Remote paths are sequences of components; an absolute path begins with
\* the component Root, and <<Root>> is the path "/".
Root == "/"

RemotePaths ==
  SeqsUpTo(Components, MaxDepth) \cup {Dot}
    \cup {<<Root>> \o d : d \in SeqsUpTo(Components, MaxDepth - 1)}

\* A parent function that climbs two levels at a time.
DirnameGrandparent(d) ==
  IF d = <<Root>> THEN d
  ELSE IF Len(d) <= 2 THEN <<>> ELSE SubSeq(d, 1, Len(d) - 2)

\* os.path.dirname: the parent of "/" is "/", that of a single relative
\* component is the empty path.
Dirname(d) == IF d = <<Root>> THEN d ELSE Front(d)

\* The collection a request for the path addresses: the path is appended
\* to the base URL after remote_dir.lstrip('/'); the empty sequence is the
\* base collection itself.
Collection(d) == IF d # <<>> /\ d[1] = Root THEN Tail(d) ELSE d

\* Nonempty prefixes of a remote path: the collection and its ancestors.
Ancestors(d) == {SubSeq(d, 1, k) : k \in 1..Len(d)}

\* Locals of each function when no invocation of it is active.
NoCall == [valid |-> FALSE, dir |-> <<>>, ret |-> FALSE, faithful |-> FALSE]

ubInit ==
  /\ ubArg = <<>> /\ ubIsList = FALSE /\ ubIdx = 0
  /\ ubSuccess = TRUE /\ ubRet = FALSE /\ ubLog = <<>>
ufInit ==
  /\ ufPath = Orig("A") /\ ufChunks = <<>> /\ ufIdx = 0 /\ ufSuccess = TRUE
  /\ ufRet = FALSE /\ ufLog = <<>> /\ ufFs0 = fs /\ ufNet = FALSE
slInit ==
  /\ slPath = Orig("A") /\ slCaller = "none"
  /\ slRet = NoneRet /\ slNum = 0 /\ slPos = 0 /\ slChunks = <<>>
usInit ==
  /\ usPath = Orig("A") /\ usCaller = "none" /\ usRet = FALSE /\ usSize0 = 0
  /\ tierRet = FALSE /\ attempt = 0 /\ server = 0 /\ storedBy = {}
netInit ==
  /\ nProbe = 0 /\ nMkcol = 0 /\ nPut = 0 /\ nPost = 0
  /\ putOK = FALSE /\ postOK = FALSE /\ lastResp = "none" /\ lastSleep = 0
mkInit ==
  /\ mkStack = <<>> /\ mkRet = FALSE /\ mkCaller = "none" /\ mkDir = <<>>
  /\ mkFaithful = TRUE /\ mkDirs0 = {} /\ mkPrev = NoCall
  /\ mkStatus = NoStatus

ufReset ==
  /\ ufPath' = Orig("A") /\ ufChunks' = <<>> /\ ufIdx' = 0
  /\ ufSuccess' = TRUE /\ ufRet' = FALSE /\ ufLog' = <<>>
  /\ ufFs0' = fs /\ ufNet' = FALSE
slReset ==
  /\ slPath' = Orig("A") /\ slCaller' = "none"
  /\ slRet' = NoneRet /\ slNum' = 0 /\ slPos' = 0 /\ slChunks' = <<>>
usReset ==
  /\ usPath' = Orig("A") /\ usCaller' = "none" /\ usRet' = FALSE
  /\ usSize0' = 0 /\ tierRet' = FALSE /\ attempt' = 0 /\ server' = 0
  /\ storedBy' = {}
netReset ==
  /\ nProbe' = 0 /\ nMkcol' = 0 /\ nPut' = 0 /\ nPost' = 0
  /\ putOK' = FALSE /\ postOK' = FALSE /\ lastResp' = "none"
  /\ lastSleep' = 0
mkLocalsReset ==
  /\ mkStack' = <<>> /\ mkRet' = FALSE /\ mkCaller' = "none"
  /\ mkDir' = <<>> /\ mkFaithful' = TRUE /\ mkDirs0' = {}
  /\ mkStatus' = NoStatus

\* ---------------------------------------------------------------------
\* upload_backup (core.py 1068-1084)
\* ---------------------------------------------------------------------
\* Entry of upload_file: the locals of one invocation.
upload_file_enter(p) ==
  /\ ufPath' = p /\ ufChunks' = <<>> /\ ufIdx' = 0 /\ ufSuccess' = TRUE
  /\ ufRet' = FALSE /\ ufLog' = <<>> /\ ufFs0' = fs /\ ufNet' = FALSE
  /\ pc' = "uf_valid"

\* upload_backup(backup_path): a list is iterated, a single path is passed
\* straight to upload_file.
upload_backup(arg, isList) ==
  /\ pc = "idle"
  /\ calls' = calls + 1
  /\ ubArg' = arg /\ ubIsList' = isList /\ ubSuccess' = TRUE
  /\ ubRet' = FALSE /\ ubLog' = <<>>
  /\ IF isList
       THEN /\ ubIdx' = 1 /\ pc' = "ub_loop" /\ UNCHANGED ufVars
       ELSE /\ ubIdx' = 0 /\ upload_file_enter(Orig(arg[1]))
  /\ UNCHANGED <<fsVars, remoteVars, slVars, usVars, netVars, mkVars,
                 packVars, thVars>>

\* One turn of "for path in backup_path": call upload_file, or return.
upload_backup_loop ==
  /\ pc = "ub_loop"
  /\ IF ubIdx <= Len(ubArg)
       THEN /\ upload_file_enter(Orig(ubArg[ubIdx]))
            /\ UNCHANGED ubRet
       ELSE /\ ubRet' = ubSuccess /\ pc' = "done"
            /\ UNCHANGED ufVars
  /\ UNCHANGED <<ubArg, ubIsList, ubIdx, ubSuccess, ubLog>>
  /\ UNCHANGED <<calls, fsVars, remoteVars, slVars, usVars, netVars, mkVars,
                 packVars, thVars>>

\* A loop that remembers the result of the last file only.
KeepLast(success, r) == r

\* "if not self.upload_file(path): success = False"
Accumulate(success, r) == success /\ r

\* upload_file returned to upload_backup: "if not ...: success = False".
upload_backup_result ==
  /\ pc = "uf_ret"
  /\ ubLog' = Append(ubLog, <<ufPath.name, ufRet>>)
  /\ IF ubIsList
       THEN /\ ubSuccess' = Accumulate(ubSuccess, ufRet)
            /\ ubIdx' = ubIdx + 1
            /\ pc' = "ub_loop"
            /\ UNCHANGED ubRet
       ELSE /\ ubRet' = ufRet /\ pc' = "done"
            /\ UNCHANGED <<ubSuccess, ubIdx>>
  /\ ufReset /\ slReset
  /\ UNCHANGED <<ubArg, ubIsList>>
  /\ UNCHANGED <<calls, fsVars, remoteVars, usVars, netVars, mkVars, packVars, thVars>>

\* ---------------------------------------------------------------------
\* _is_valid_file (core.py 210-223), shutil.rmtree in _clean_directory
\* (core.py 168-184)
\* ---------------------------------------------------------------------
\* A check that lets empty files through.
is_valid_file_any_size(f, p) == Exists(f, p)

is_valid_file(f, p) == Exists(f, p) /\ Size(f, p) > 0

\* Every fragment that lives in the shared "chunks" directory.
ChunkPaths == {p \in Paths : p.part # NoPart}

\* shutil.rmtree of the chunks directory: all of its entries go.
RmtreeChunks(f) == [p \in Paths |-> IF p \in ChunkPaths THEN Absent ELSE f[p]]

\* ---------------------------------------------------------------------
\* upload_file (core.py 350-381)
\* ---------------------------------------------------------------------
\* Entry of _upload_single_file: the locals of one delivery.
upload_single_file_enter(p, caller) ==
  /\ usPath' = p /\ usCaller' = caller /\ usRet' = FALSE
  /\ usSize0' = IF Exists(fs, p) THEN Size(fs, p) ELSE -1
  /\ tierRet' = FALSE /\ attempt' = 0 /\ server' = 0 /\ storedBy' = {}
  /\ netReset
  /\ pc' = "us_start"

\* Entry of split_large_file: the locals of one invocation.
split_large_file_enter(p, caller) ==
  /\ slPath' = p /\ slCaller' = caller
  /\ slRet' = NoneRet /\ slNum' = 0 /\ slPos' = 0 /\ slChunks' = <<>>
  /\ pc' = "sl_start"

\* "if not self._is_valid_file(file_path): return False", else the call
\* of split_large_file.
upload_file_validate ==
  /\ pc = "uf_valid"
  /\ IF is_valid_file(fs, ufPath)
       THEN /\ split_large_file_enter(ufPath, "upload_file")
            /\ UNCHANGED ufRet
       ELSE /\ ufRet' = FALSE /\ pc' = "uf_ret"
            /\ UNCHANGED slVars
  /\ UNCHANGED <<ufPath, ufChunks, ufIdx, ufSuccess, ufLog, ufFs0, ufNet>>
  /\ UNCHANGED <<calls, fsVars, remoteVars, ubVars, usVars, netVars, mkVars,
                 packVars, thVars>>

\* "chunk_files = self.split_large_file(file_path); if chunk_files: ...
\* else: return self._upload_single_file(file_path)"
upload_file_after_split ==
  /\ pc = "sl_ret" /\ slCaller = "upload_file"
  /\ IF ~slRet.isNone /\ Len(slRet.files) > 0
       THEN /\ ufChunks' = slRet.files /\ ufIdx' = 1 /\ ufSuccess' = TRUE
            /\ pc' = "uf_chunk_loop"
            /\ UNCHANGED <<usVars, netVars>>
       ELSE /\ upload_single_file_enter(ufPath, "upload_file")
            /\ UNCHANGED <<ufChunks, ufIdx, ufSuccess>>
  /\ UNCHANGED <<ufPath, ufRet, ufLog, ufFs0, ufNet>>
  /\ UNCHANGED <<calls, fsVars, remoteVars, ubVars, slVars, mkVars, packVars, thVars>>

\* One turn of "for chunk_file in chunk_files", and after the loop the
\* cleanup of the chunk directory and of the original when success holds.
upload_file_chunk_loop ==
  /\ pc = "uf_chunk_loop"
  /\ IF ufIdx <= Len(ufChunks)
       THEN /\ upload_single_file_enter(ufChunks[ufIdx], "upload_file")
            /\ UNCHANGED <<fsVars, ufRet>>
       ELSE /\ IF ufSuccess
                 THEN \E ok \in BOOLEAN :
                        /\ fs' = Remove(RmtreeChunks(fs), ufPath)
                        /\ chunkDir' = ok
                 ELSE UNCHANGED fsVars
            /\ ufRet' = ufSuccess
            /\ pc' = "uf_ret"
            /\ UNCHANGED <<usVars, netVars>>
  /\ UNCHANGED <<ufPath, ufChunks, ufIdx, ufSuccess, ufLog, ufFs0, ufNet>>
  /\ UNCHANGED <<calls, remoteVars, ubVars, slVars, mkVars, packVars, thVars>>

\* _upload_single_file returned to upload_file: inside the fragment loop
\* "if not ...: success = False", otherwise its result is returned.
upload_file_result ==
  /\ pc = "us_ret" /\ usCaller = "upload_file"
  /\ ufLog' = Append(ufLog, usRet)
  /\ IF Len(ufChunks) > 0
       THEN /\ ufSuccess' = (ufSuccess /\ usRet)
            /\ ufIdx' = ufIdx + 1
            /\ pc' = "uf_chunk_loop"
            /\ UNCHANGED ufRet
       ELSE /\ ufRet' = usRet /\ pc' = "uf_ret"
            /\ UNCHANGED <<ufSuccess, ufIdx>>
  /\ usReset /\ netReset
  /\ UNCHANGED <<ufPath, ufChunks, ufFs0, ufNet>>
  /\ UNCHANGED <<calls, fsVars, remoteVars, ubVars, slVars, mkVars, packVars, thVars>>

\* ---------------------------------------------------------------------
\* split_large_file (core.py 306-348)
\* ---------------------------------------------------------------------
\* A reader that never returns the last byte of the file.
ReadWindowDropsLast(data, pos) ==
  SubSeq(data, pos + 1, Min(pos + CHUNK_SIZE, Len(data) - 1))

\* A reader whose window is one byte short of CHUNK_SIZE.
ReadWindowShort(data, pos) ==
  SubSeq(data, pos + 1, Min(pos + CHUNK_SIZE - 1, Len(data)))

\* The window f.read(CHUNK_SIZE) returns at offset pos.
ReadWindow(data, pos) ==
  SubSeq(data, pos + 1, Min(pos + CHUNK_SIZE, Len(data)))

\* Direct call of split_large_file(file_path).
split_large_file(p) ==
  /\ pc = "idle"
  /\ calls' = calls + 1
  /\ split_large_file_enter(p, "direct")
  /\ UNCHANGED <<fsVars, remoteVars, ubVars, ufVars, usVars, netVars, mkVars,
                 packVars, thVars>>

\* Existence and size checks, then _ensure_directory(chunk_dir).
split_large_file_start ==
  /\ pc = "sl_start"
  /\ IF ~Exists(fs, slPath) \/ Size(fs, slPath) <= MAX_SINGLE_FILE_SIZE
       THEN /\ slRet' = NoneRet /\ pc' = "sl_ret"
            /\ UNCHANGED fsVars
       ELSE \E ok \in BOOLEAN :
              IF ok
                THEN /\ chunkDir' = TRUE /\ pc' = "sl_read"
                     /\ UNCHANGED <<fs, slRet>>
                ELSE /\ slRet' = NoneRet /\ pc' = "sl_ret"
                     /\ UNCHANGED fsVars
  /\ UNCHANGED <<slPath, slCaller, slNum, slPos, slChunks>>
  /\ UNCHANGED <<calls, remoteVars, ubVars, ufVars, usVars, netVars, mkVars,
                 packVars, thVars>>

\* One turn of "while True": read a window; an empty window ends the loop,
\* otherwise the window is written to fragment chunk_num. A read or write
\* error (OSError) abandons the split with None; the fragment being written
\* may have been created empty by open(..., 'wb') before the error.
split_large_file_read ==
  /\ pc = "sl_read"
  /\ LET data == fs[slPath].data
         chunk_data == ReadWindow(data, slPos)
         chunk_path == Frag(slPath.name, slNum)
     IN IF Len(chunk_data) = 0
          THEN /\ slRet' = ListRet(slChunks) /\ pc' = "sl_ret"
               /\ UNCHANGED <<fs, slNum, slPos, slChunks>>
          ELSE \/ /\ fs' = [fs EXCEPT ![chunk_path] = File(chunk_data)]
                  /\ slChunks' = Append(slChunks, chunk_path)
                  /\ slNum' = slNum + 1
                  /\ slPos' = slPos + Len(chunk_data)
                  /\ UNCHANGED <<slRet, pc>>
               \/ /\ \E created \in BOOLEAN :
                       fs' = IF created
                               THEN [fs EXCEPT ![chunk_path] = File(<<>>)]
                               ELSE fs
                  /\ slRet' = NoneRet /\ pc' = "sl_ret"
                  /\ UNCHANGED <<slNum, slPos, slChunks>>
  /\ UNCHANGED <<slPath, slCaller>>
  /\ UNCHANGED <<calls, chunkDir, remoteVars, ubVars, ufVars, usVars, netVars,
                 mkVars, packVars, thVars>>

\* split_large_file returned to a direct caller.
split_large_file_return ==
  /\ pc = "sl_ret" /\ slCaller = "direct"
  /\ pc' = "done"
  /\ UNCHANGED <<calls, fsVars, remoteVars, ubVars, ufVars, slVars, usVars,
                 netVars, mkVars, packVars, thVars>>

\* ---------------------------------------------------------------------
\* _upload_single_file (core.py 613-658)
\* ---------------------------------------------------------------------
\* Direct call of _upload_single_file(file_path).
upload_single_file(p) ==
  /\ pc = "idle"
  /\ calls' = calls + 1
  /\ upload_single_file_enter(p, "direct")
  /\ UNCHANGED <<fsVars, remoteVars, ubVars, ufVars, slVars, mkVars, packVars, thVars>>

\* os.path.getsize raises OSError for a missing path (-> False); an empty
\* or oversize file is removed and refused; otherwise the primary tier.
upload_single_file_start ==
  /\ pc = "us_start"
  /\ IF ~Exists(fs, usPath)
       THEN /\ usRet' = FALSE /\ pc' = "us_ret" /\ UNCHANGED fs
       ELSE IF Size(fs, usPath) = 0 \/ Size(fs, usPath) > MAX_SINGLE_FILE_SIZE
         THEN /\ fs' = Remove(fs, usPath)
              /\ usRet' = FALSE /\ pc' = "us_ret"
         ELSE /\ pc' = "inf_start" /\ UNCHANGED <<fs, usRet>>
  /\ UNCHANGED <<usPath, usCaller, usSize0, tierRet, attempt, server, storedBy>>
  /\ UNCHANGED <<calls, chunkDir, remoteVars, ubVars, ufVars, slVars, netVars,
                 mkVars, packVars, thVars>>

\* A delivery that tries the secondary tier whatever the primary returned.
FallsBackAlways(primary) == TRUE

\* The secondary tier is tried when _upload_single_file_infini returned
\* False.
FallsBack(primary) == ~primary

\* "if self._upload_single_file_infini(file_path): remove; return True"
upload_single_file_after_infini ==
  /\ pc = "us_after_inf"
  /\ IF ~FallsBack(tierRet)
       THEN /\ fs' = Remove(fs, usPath)
            /\ usRet' = TRUE /\ pc' = "us_ret"
       ELSE /\ pc' = "gf_start" /\ UNCHANGED <<fs, usRet>>
  /\ UNCHANGED <<usPath, usCaller, usSize0, tierRet, attempt, server, storedBy>>
  /\ UNCHANGED <<calls, chunkDir, remoteVars, ubVars, ufVars, slVars, netVars,
                 mkVars, packVars, thVars>>

\* "if self._upload_single_file_gofile(file_path): remove; return True",
\* else "return False".
upload_single_file_after_gofile ==
  /\ pc = "us_after_gf"
  /\ IF tierRet
       THEN /\ fs' = Remove(fs, usPath) /\ usRet' = TRUE
       ELSE /\ usRet' = FALSE /\ UNCHANGED fs
  /\ pc' = "us_ret"
  /\ UNCHANGED <<usPath, usCaller, usSize0, tierRet, attempt, server, storedBy>>
  /\ UNCHANGED <<calls, chunkDir, remoteVars, ubVars, ufVars, slVars, netVars,
                 mkVars, packVars, thVars>>

\* _upload_single_file returned to a direct caller.
upload_single_file_return ==
  /\ pc = "us_ret" /\ usCaller = "direct"
  /\ pc' = "done"
  /\ UNCHANGED <<calls, fsVars, remoteVars, ubVars, ufVars, slVars, usVars,
                 netVars, mkVars, packVars, thVars>>

\* ---------------------------------------------------------------------
\* _check_internet_connection (core.py 186-208): any one of the three
\* hosts reachable counts as online; the result is the environment's.
\* ---------------------------------------------------------------------
ProbeResults == BOOLEAN

\* A loop that gives up one attempt early.
FewerAttempts(a) == a < RETRY_COUNT - 1

\* "for attempt in range(self.config.RETRY_COUNT)" of either tier.
MoreAttempts(a) == a < RETRY_COUNT

\* ---------------------------------------------------------------------
\* _upload_single_file_infini (core.py 410-522)
\* ---------------------------------------------------------------------
\* Outcomes of a PUT as <<response, stored>>: a status the code branches
\* on, or an exception; a request whose response was lost (timeout,
\* connection error) may still have been stored by the provider.
\* A client that takes every 2xx answer for a stored file.
PutSuccessAny2xx == {"created", "nocontent", "other"}

\* A client that stops at a "forbidden" answer as it does at a success.
PutSuccessOrForbidden == {"created", "nocontent", "forbidden"}

PutSuccess == {"created", "nocontent"}
PutOutcomes ==
  (PutSuccess \X {TRUE})
    \cup ({"forbidden", "notfound", "conflict", "other", "ssl"} \X {FALSE})
    \cup ({"timeout", "connerr"} \X BOOLEAN)
PutCoarse == {<<"created", TRUE>>, <<"connerr", FALSE>>}

\* A loop body that goes on to the PUT whatever the probe reported.
AfterProbeIgnored(online) == "inf_put"

\* "if not self._check_internet_connection(): ... continue": an offline
\* probe leads back to the head of the loop, an online one to the PUT.
AfterProbe(online) == IF online THEN "inf_put" ELSE "inf_loop"

\* Existence and size checks, then the remote directory is provisioned
\* once, before the retry loop; its result is only logged.
upload_single_file_infini_start ==
  /\ pc = "inf_start"
  /\ IF ~Exists(fs, usPath) \/ Size(fs, usPath) = 0
        \/ Size(fs, usPath) > MAX_SINGLE_FILE_SIZE
       THEN /\ tierRet' = FALSE /\ pc' = "us_after_inf"
            /\ UNCHANGED <<mkStack, mkCaller, mkDir, mkFaithful, mkDirs0>>
       ELSE /\ mkStack' = <<[dir |-> INFINI_REMOTE_BASE_DIR, phase |-> "first"]>>
            /\ mkCaller' = "infini" /\ mkFaithful' = TRUE
            /\ mkDir' = INFINI_REMOTE_BASE_DIR
            /\ mkDirs0' = remoteDirs
            /\ pc' = "mk_request"
            /\ UNCHANGED tierRet
  /\ attempt' = 0
  /\ UNCHANGED <<usPath, usCaller, usRet, usSize0, server, storedBy>>
  /\ UNCHANGED <<mkRet, mkPrev, mkStatus>>
  /\ UNCHANGED <<calls, fsVars, remoteVars, ubVars, ufVars, slVars, netVars,
                 packVars, thVars>>

\* Head of "for attempt in range(RETRY_COUNT)": the connectivity probe.
\* Offline: sleep RETRY_DELAY and continue with the next attempt.
upload_single_file_infini_probe ==
  /\ pc = "inf_loop"
  /\ IF MoreAttempts(attempt)
       THEN \E online \in ProbeResults :
              /\ nProbe' = nProbe + 1
              /\ ufNet' = TRUE
              /\ pc' = AfterProbe(online)
              /\ IF online
                   THEN /\ lastSleep' = 0
                        /\ UNCHANGED attempt
                   ELSE /\ lastSleep' = RETRY_DELAY
                        /\ attempt' = attempt + 1
              /\ lastResp' = IF online THEN "online" ELSE "offline"
              /\ UNCHANGED tierRet
       ELSE /\ tierRet' = FALSE /\ pc' = "us_after_inf"
            /\ UNCHANGED <<nProbe, ufNet, lastSleep, lastResp, attempt>>
  /\ UNCHANGED <<usPath, usCaller, usRet, usSize0, server, storedBy>>
  /\ UNCHANGED <<nMkcol, nPut, nPost, putOK, postOK>>
  /\ UNCHANGED <<ufPath, ufChunks, ufIdx, ufSuccess, ufRet, ufLog, ufFs0>>
  /\ UNCHANGED <<calls, fsVars, remoteVars, ubVars, slVars, mkVars, packVars, thVars>>

\* The PUT of one attempt. 201/204 returns True; every other status and
\* every exception falls through to the sleep at the end of the loop body.
upload_single_file_infini_put(outcomes) ==
  /\ pc = "inf_put"
  /\ \E o \in outcomes :
       LET resp == o[1]
           landed == o[2]
       IN /\ nPut' = nPut + 1
          /\ ufNet' = TRUE
          /\ lastResp' = resp
          /\ storedBy' = IF landed THEN storedBy \cup {"primary"}
                                   ELSE storedBy
          /\ putOK' = (putOK \/ resp \in {"created", "nocontent"})
          /\ IF resp \in PutSuccess
               THEN /\ tierRet' = TRUE
                    /\ pc' = "us_after_inf"
                    /\ lastSleep' = 0
                    /\ UNCHANGED attempt
               ELSE /\ lastSleep' = IF attempt < RETRY_COUNT - 1
                                      THEN RETRY_DELAY ELSE 0
                    /\ attempt' = attempt + 1
                    /\ pc' = "inf_loop"
                    /\ UNCHANGED tierRet
  /\ UNCHANGED <<usPath, usCaller, usRet, usSize0, server>>
  /\ UNCHANGED <<nProbe, nMkcol, nPost, postOK>>
  /\ UNCHANGED <<ufPath, ufChunks, ufIdx, ufSuccess, ufRet, ufLog, ufFs0>>
  /\ UNCHANGED <<calls, fsVars, remoteVars, ubVars, slVars, mkVars, packVars, thVars>>

\* ---------------------------------------------------------------------
\* _upload_single_file_gofile (core.py 524-611)
\* ---------------------------------------------------------------------
\* Outcomes of a POST as <<response, stored>>: "ok" is an OK response with
\* a JSON body whose status is "ok"; "json_error" a JSON body with another
\* status; "non_json" an OK response without a JSON body; "http_error" a
\* non-OK status; the rest are exceptions.
PostOutcomes ==
  ({"ok"} \X {TRUE})
    \cup ({"json_error", "non_json", "http_error", "ssl"} \X {FALSE})
    \cup ({"timeout", "connerr"} \X BOOLEAN)
PostCoarse == {<<"ok", TRUE>>, <<"non_json", FALSE>>}

\* A client that takes every JSON answer for an accepted file.
PostSuccessAnyJson(resp) == resp \in {"ok", "json_error"}

\* "if response.ok: ... if result.get('status') == 'ok': return True"
PostSuccess(resp) == resp = "ok"

\* A secondary tier that waits the base delay when offline.
gofile_offline_delay_base == RETRY_DELAY

\* "time.sleep(self.config.RETRY_DELAY * 2)" of an offline attempt.
gofile_offline_delay == RETRY_DELAY * 2

\* Size checks of the secondary tier.
upload_single_file_gofile_start ==
  /\ pc = "gf_start"
  /\ IF Size(fs, usPath) = 0 \/ Size(fs, usPath) > MAX_SINGLE_FILE_SIZE
       THEN /\ tierRet' = FALSE /\ pc' = "us_after_gf"
       ELSE /\ pc' = "gf_loop" /\ UNCHANGED tierRet
  /\ attempt' = 0 /\ server' = 0
  /\ UNCHANGED <<usPath, usCaller, usRet, usSize0, storedBy>>
  /\ UNCHANGED <<calls, fsVars, remoteVars, ubVars, ufVars, slVars, netVars,
                 mkVars, packVars, thVars>>

\* Head of "for attempt in range(RETRY_COUNT)": the connectivity probe.
\* Offline: sleep 2 * RETRY_DELAY and continue with the next attempt.
upload_single_file_gofile_probe ==
  /\ pc = "gf_loop"
  /\ IF MoreAttempts(attempt)
       THEN \E online \in ProbeResults :
              /\ nProbe' = nProbe + 1
              /\ ufNet' = TRUE
              /\ IF online
                   THEN /\ pc' = "gf_post" /\ server' = 1
                        /\ lastSleep' = 0
                        /\ UNCHANGED attempt
                   ELSE /\ lastSleep' = gofile_offline_delay
                        /\ attempt' = attempt + 1
                        /\ UNCHANGED <<pc, server>>
              /\ lastResp' = IF online THEN "online" ELSE "offline"
              /\ UNCHANGED tierRet
       ELSE /\ tierRet' = FALSE /\ pc' = "us_after_gf"
            /\ UNCHANGED <<nProbe, ufNet, lastSleep, lastResp, attempt, server>>
  /\ UNCHANGED <<usPath, usCaller, usRet, usSize0, storedBy>>
  /\ UNCHANGED <<nMkcol, nPut, nPost, putOK, postOK>>
  /\ UNCHANGED <<ufPath, ufChunks, ufIdx, ufSuccess, ufRet, ufLog, ufFs0>>
  /\ UNCHANGED <<calls, fsVars, remoteVars, ubVars, slVars, mkVars, packVars, thVars>>

\* One turn of "for server in UPLOAD_SERVERS": the POST to one endpoint.
\* Only "ok" returns True; after the last endpoint the attempt ends with a
\* RETRY_DELAY sleep unless it was the last attempt.
upload_single_file_gofile_post(outcomes) ==
  /\ pc = "gf_post"
  /\ \E o \in outcomes :
       LET resp == o[1]
           landed == o[2]
       IN /\ nPost' = nPost + 1
          /\ ufNet' = TRUE
          /\ lastResp' = resp
          /\ storedBy' = IF landed THEN storedBy \cup {"secondary"}
                                   ELSE storedBy
          /\ postOK' = (postOK \/ resp = "ok")
          /\ IF PostSuccess(resp)
               THEN /\ tierRet' = TRUE
                    /\ pc' = "us_after_gf"
                    /\ lastSleep' = 0
                    /\ UNCHANGED <<attempt, server>>
               ELSE IF server < NumServers
                 THEN /\ server' = server + 1
                      /\ lastSleep' = 0
                      /\ UNCHANGED <<tierRet, attempt, pc>>
                 ELSE /\ lastSleep' = IF attempt < RETRY_COUNT - 1
                                        THEN RETRY_DELAY ELSE 0
                      /\ attempt' = attempt + 1
                      /\ pc' = "gf_loop"
                      /\ UNCHANGED <<tierRet, server>>
  /\ UNCHANGED <<usPath, usCaller, usRet, usSize0>>
  /\ UNCHANGED <<nProbe, nMkcol, nPut, putOK>>
  /\ UNCHANGED <<ufPath, ufChunks, ufIdx, ufSuccess, ufRet, ufLog, ufFs0>>
  /\ UNCHANGED <<calls, fsVars, remoteVars, ubVars, slVars, mkVars, packVars, thVars>>

\* ---------------------------------------------------------------------
\* _create_remote_directory (core.py 383-408)
\* ---------------------------------------------------------------------
\* Status codes a MKCOL can be answered with; 0 stands for a transport
\* failure (the request raised an exception).
MkcolResponses == {0, 200, 201, 204, 403, 405, 409}
\* A client that takes every 2xx answer for a created collection.
MkcolSuccessAny2xx == {200, 201, 204, 405}

\* A client that takes "already exists" for a failure.
MkcolSuccessWithout405 == {201, 204}

MkcolSuccess == {201, 204, 405}

\* What a WebDAV store answers to MKCOL: 405 for an existing collection
\* (the base collection always exists), 409 when the parent collection is
\* missing, 201 otherwise.
StoreAnswer(dirs, d) ==
  IF d = <<>> \/ d \in dirs THEN 405
  ELSE IF Len(d) > 1 /\ Front(d) \notin dirs THEN 409
  ELSE 201

\* Outcomes of a MKCOL as <<status, created>> when the store's own answer
\* would be "answer": any status may come back; the collection is created
\* when the store answers 201, and possibly when that answer is lost.
MkcolOutcomes(answer) ==
  {o \in MkcolResponses \X BOOLEAN :
     /\ o[2] => (answer = 201 /\ o[1] \in {0, 201})
     /\ (o[1] = 201 /\ answer = 201) => o[2]}
MkcolCoarse(answer) == {<<answer, answer = 201>>, <<0, FALSE>>}

\* "if not remote_dir or remote_dir == '.': return True"
IsTrivialDir(d) == d = <<>> \/ d = Dot

\* The interpreter refuses a call nested deeper than its recursion limit
\* (MaxRecursion activations here); the RecursionError is caught by the
\* "except Exception" of the activation that made the call, which returns
\* False.
RecursionError(stack) == Len(stack) >= MaxRecursion

\* Direct call of _create_remote_directory(remote_dir).
create_remote_directory(d) ==
  /\ pc = "idle" /\ calls < MaxCalls
  /\ calls' = calls + 1
  /\ mkPrev' = IF calls > 0
                 THEN [valid |-> TRUE, dir |-> mkDir, ret |-> mkRet,
                       faithful |-> mkFaithful]
                 ELSE NoCall
  /\ mkCaller' = "direct" /\ mkFaithful' = TRUE /\ mkDirs0' = remoteDirs
  /\ mkStatus' = NoStatus
  /\ mkDir' = d
  /\ nMkcol' = 0
  /\ IF IsTrivialDir(d)
       THEN /\ mkRet' = TRUE /\ mkStack' = <<>> /\ pc' = "idle"
       ELSE /\ mkRet' = FALSE
            /\ mkStack' = <<[dir |-> d, phase |-> "first"]>>
            /\ pc' = "mk_request"
  /\ UNCHANGED <<nProbe, nPut, nPost, putOK, postOK, lastResp, lastSleep>>
  /\ UNCHANGED <<fsVars, remoteVars, ubVars, ufVars, slVars, usVars, packVars, thVars>>

\* One MKCOL request of the topmost activation and the branch on its
\* status: success codes return True; 409 on the first request recurses
\* to the parent when there is one; everything else returns False.
create_remote_directory_request(coarse) ==
  /\ pc = "mk_request"
  /\ LET top == mkStack[Len(mkStack)]
         answer == StoreAnswer(remoteDirs, Collection(top.dir))
         parent_dir == Dirname(top.dir)
     IN \E o \in IF coarse THEN MkcolCoarse(answer)
                          ELSE MkcolOutcomes(answer) :
          LET resp == o[1]
              created == o[2]
          IN /\ remoteDirs' = IF created
                                THEN remoteDirs \cup {Collection(top.dir)}
                                ELSE remoteDirs
             /\ mkFaithful' = (mkFaithful /\ resp = answer)
             /\ mkStatus' = resp
             /\ nMkcol' = nMkcol + 1
             /\ ufNet' = (ufNet \/ mkCaller = "infini")
             /\ lastResp' = IF resp \in MkcolSuccess THEN "mkcol_ok"
                            ELSE IF resp = 409 THEN "mkcol_conflict"
                            ELSE IF resp = 0 THEN "mkcol_exception"
                            ELSE "mkcol_other"
             /\ IF resp \in MkcolSuccess
                  THEN /\ mkRet' = TRUE
                       /\ mkStack' = Front(mkStack)
                       /\ pc' = "mk_return"
                  ELSE IF resp = 409 /\ top.phase = "first"
                          /\ ~IsTrivialDir(parent_dir)
                          /\ ~RecursionError(mkStack)
                    THEN /\ mkStack' =
                              Append([mkStack EXCEPT
                                        ![Len(mkStack)].phase = "wait"],
                                     [dir |-> parent_dir, phase |-> "first"])
                         /\ UNCHANGED <<mkRet, pc>>
                    ELSE /\ mkRet' = FALSE
                         /\ mkStack' = Front(mkStack)
                         /\ pc' = "mk_return"
  /\ UNCHANGED <<mkCaller, mkDir, mkDirs0, mkPrev>>
  /\ UNCHANGED <<nProbe, nPut, nPost, putOK, postOK, lastSleep>>
  /\ UNCHANGED <<ufPath, ufChunks, ufIdx, ufSuccess, ufRet, ufLog, ufFs0>>
  /\ UNCHANGED <<calls, fsVars, ubVars, slVars, usVars, packVars, thVars>>

\* An activation returned: to the waiting parent activation, which retries
\* its own MKCOL once when the result is True and returns False otherwise,
\* or to the caller of the outermost activation (the primary tier only
\* logs the result and enters its retry loop).
create_remote_directory_return ==
  /\ pc = "mk_return"
  /\ IF mkStack = <<>>
       THEN IF mkCaller = "infini"
              THEN /\ pc' = "inf_loop" /\ mkLocalsReset
              ELSE /\ pc' = "idle"
                   /\ UNCHANGED <<mkStack, mkRet, mkCaller, mkDir, mkFaithful,
                                  mkDirs0, mkStatus>>
       ELSE IF mkRet
         THEN /\ mkStack' = [mkStack EXCEPT ![Len(mkStack)].phase = "retry"]
              /\ pc' = "mk_request"
              /\ UNCHANGED <<mkRet, mkCaller, mkDir, mkFaithful, mkDirs0,
                             mkStatus>>
         ELSE /\ mkStack' = Front(mkStack)
              /\ UNCHANGED <<mkRet, mkCaller, mkDir, mkFaithful, mkDirs0, pc,
                             mkStatus>>
  /\ UNCHANGED mkPrev
  /\ UNCHANGED <<calls, fsVars, remoteVars, ubVars, ufVars, slVars, usVars,
                 netVars, packVars, thVars>>

\* ---------------------------------------------------------------------
\* zip_backup_folder (core.py 660-732), _compress_chunk_part (734-765),
\* split_large_directory (767-901)
\* ---------------------------------------------------------------------
\* Archive files: Single is <base>.tar.gz, n >= 0 is <base>_part<n>.tar.gz.
Single == -1
NoArchive == -2
NoFile == -1
ArchiveNames == Single..(MaxFiles - 1)

\* MAX_CHUNK_SIZE = int(MAX_SINGLE_FILE_SIZE * SAFETY_MARGIN /
\* COMPRESSION_RATIO) with SAFETY_MARGIN = COMPRESSION_RATIO = 0.7.
SAFETY_MARGIN_x10 == 7
COMPRESSION_RATIO_x10 == 7
MAX_CHUNK_SIZE ==
  (MAX_SINGLE_FILE_SIZE * SAFETY_MARGIN_x10) \div COMPRESSION_RATIO_x10

\* Sizes a freshly written tar.gz can have: empty, exactly at the ceiling,
\* above the ceiling.
CompressSizes == {0, MAX_SINGLE_FILE_SIZE, MAX_SINGLE_FILE_SIZE + 1}

\* Sizes the tar.gz of a bin can have; a bin holds at least one non-empty
\* file, and _compress_chunk_part tests its archive against the ceiling only.
PartSizes == {MAX_SINGLE_FILE_SIZE, MAX_SINGLE_FILE_SIZE + 1}

NoneResult == [kind |-> "none", files |-> <<>>]
PathResult(a) == [kind |-> "path", files |-> <<a>>]
ListResult(l) == [kind |-> "list", files |-> l]

RECURSIVE SumSizes(_, _)
SumSizes(t, ids) ==
  IF ids = <<>> THEN 0 ELSE t[Head(ids)] + SumSizes(t, Tail(ids))

\* sorted(file_sizes.items(), key=size, reverse=True): a stable sort, files
\* of equal size keep the order in which os.walk met them.
RECURSIVE InsertDesc(_, _, _)
InsertDesc(t, x, s) ==
  IF s = <<>> THEN <<x>>
  ELSE IF t[Head(s)] >= t[x] THEN <<Head(s)>> \o InsertDesc(t, x, Tail(s))
  ELSE <<x>> \o s

\* An enumeration that is left in walk order.
SortAsWalked(t, ids) == ids

RECURSIVE SortDesc(_, _)
SortDesc(t, ids) ==
  IF ids = <<>> THEN <<>>
  ELSE InsertDesc(t, ids[Len(ids)], SortDesc(t, Front(ids)))

\* Files of the source tree in walk order, and those of nonzero size.
RECURSIVE WalkFiles(_, _)
WalkFiles(present, n) ==
  IF n = 0 THEN <<>>
  ELSE IF n \in present THEN Append(WalkFiles(present, n - 1), n)
  ELSE WalkFiles(present, n - 1)

NonEmptyFiles(t, ids) == SelectSeq(ids, LAMBDA i : t[i] > 0)

\* What can happen to one bin: its staging directory cannot be created;
\* the copy of its (k+1)-th file fails; tarfile raises; a tar.gz of some
\* size is written.
BinOutcomes(chunk) ==
  {[kind |-> "nodir", k |-> 0, size |-> 0]}
    \cup {[kind |-> "copyfail", k |-> k, size |-> 0] : k \in 0..(Len(chunk) - 1)}
    \cup {[kind |-> "tarfail", k |-> 0, size |-> 0]}
    \cup {[kind |-> "tar", k |-> 0, size |-> c] : c \in PartSizes}

\* A compressor that keeps its archive whatever its size.
compress_chunk_part_unchecked(o, pnum) ==
  IF o.kind = "tar" THEN pnum ELSE NoArchive

\* _compress_chunk_part: the archive is kept and returned only when its
\* size does not exceed MAX_SINGLE_FILE_SIZE.
compress_chunk_part(o, pnum) ==
  IF o.kind = "tar" /\ ~(o.size > MAX_SINGLE_FILE_SIZE) THEN pnum
  ELSE NoArchive

\* Staging and compressing one bin (core.py 825-852 and 863-887).
BinEntry(chunk, pnum, o) ==
  [files |-> chunk,
   part |-> pnum,
   staging |-> IF o.kind \in {"nodir", "copyfail"} THEN o.kind ELSE "complete",
   staged |-> IF o.kind = "nodir" THEN {}
              ELSE IF o.kind = "copyfail" THEN {chunk[j] : j \in 1..o.k}
              ELSE {chunk[j] : j \in 1..Len(chunk)},
   archive |-> IF o.kind \in {"nodir", "copyfail"} THEN NoArchive
               ELSE compress_chunk_part(o, pnum),
   size |-> IF o.kind = "tar" /\ compress_chunk_part(o, pnum) # NoArchive
              THEN o.size ELSE NoFile]

\* Leaving split_large_directory: to zip_backup_folder, which returns the
\* result unchanged, or to a direct caller.
split_large_directory_leave(r) ==
  /\ sdRet' = r
  /\ zbRet' = IF sdCaller = "zip" THEN r ELSE zbRet
  /\ pc' = "done"

split_large_directory_enter(caller) ==
  /\ sdCaller' = caller
  /\ sorted_files' = <<>> /\ sdIdx' = 0
  /\ current_chunk' = <<>> /\ current_chunk_size' = 0
  /\ part_num' = 0 /\ compressed_files' = <<>> /\ binLog' = <<>>
  /\ pc' = "sd_start"

\* A refusal that forgets the trees made of empty files only.
RejectsSourceBySizeBlind(exists, total_files, dir_size) ==
  ~exists \/ total_files = 0

\* Lines 671-695: a missing directory, a directory without files and a
\* directory whose non-empty files add up to 0 are refused.
RejectsSource(exists, total_files, dir_size) ==
  ~exists \/ total_files = 0 \/ dir_size = 0

\* zip_backup_folder up to the decision between archiving and splitting.
zip_backup_folder ==
  /\ pc = "idle"
  /\ calls' = calls + 1
  /\ LET files == WalkFiles(srcFiles, Len(tree))
         dir_size == SumSizes(tree, NonEmptyFiles(tree, files))
     IN IF RejectsSource(srcDir, Len(files), dir_size)
          THEN /\ zbRet' = NoneResult /\ pc' = "done"
               /\ UNCHANGED <<sdRet, sdCaller, sorted_files, sdIdx,
                              current_chunk, current_chunk_size, part_num,
                              compressed_files, binLog>>
          ELSE IF dir_size > MAX_SOURCE_DIR_SIZE
            THEN /\ split_large_directory_enter("zip")
                 /\ UNCHANGED <<zbRet, sdRet>>
            ELSE /\ pc' = "zb_tar"
                 /\ UNCHANGED <<zbRet, sdRet, sdCaller, sorted_files, sdIdx,
                                current_chunk, current_chunk_size, part_num,
                                compressed_files, binLog>>
  /\ entry' = [op |-> "zip", dir |-> srcDir, files |-> srcFiles]
  /\ UNCHANGED <<tree, srcDir, srcFiles, archives, compressed_size>>
  /\ UNCHANGED <<fsVars, remoteVars, ubVars, ufVars, slVars, usVars, netVars,
                 mkVars, thVars>>

\* What is left at tar_path once the archive was measured (lines 711-719):
\* an empty or oversize archive is removed.
\* A check that forgets to remove the oversize archive.
SingleKeptIfOversize(size) == IF size = 0 THEN NoFile ELSE size

SingleAfterCheck(size) ==
  IF size = 0 \/ size > MAX_SINGLE_FILE_SIZE THEN NoFile ELSE size

\* A cleaner that leaves the files in place.
clean_directory_keeps(files) == files

\* _clean_directory: shutil.rmtree removes every file of the directory.
clean_directory(files) == {}

\* The single archive is written and validated: tarfile may raise (the
\* partly written file stays behind); an empty archive is removed and the
\* call fails; an oversize archive is removed and the directory is split;
\* otherwise the source directory is cleaned and the path returned.
zip_backup_folder_tar ==
  /\ pc = "zb_tar"
  /\ \/ /\ \E left \in {NoFile} \cup CompressSizes :
             archives' = [archives EXCEPT ![Single] = left]
        /\ zbRet' = NoneResult /\ pc' = "done"
        /\ UNCHANGED <<srcDir, srcFiles, sdRet, sdCaller, sorted_files, sdIdx,
                       current_chunk, current_chunk_size, part_num,
                       compressed_files, binLog, compressed_size>>
     \/ \E size \in CompressSizes :
          /\ compressed_size' = size
          /\ archives' = [archives EXCEPT ![Single] = SingleAfterCheck(size)]
          /\ IF size = 0
            THEN /\ zbRet' = NoneResult /\ pc' = "done"
                 /\ UNCHANGED <<srcDir, srcFiles, sdRet, sdCaller,
                                sorted_files, sdIdx, current_chunk,
                                current_chunk_size, part_num,
                                compressed_files, binLog>>
            ELSE IF size > MAX_SINGLE_FILE_SIZE
              THEN /\ split_large_directory_enter("zip")
                   /\ UNCHANGED <<srcDir, srcFiles, zbRet, sdRet>>
              ELSE /\ srcFiles' = clean_directory(srcFiles)
                   /\ \E ok \in BOOLEAN : srcDir' = ok
                   /\ zbRet' = PathResult(Single) /\ pc' = "done"
                   /\ UNCHANGED <<sdRet, sdCaller, sorted_files, sdIdx,
                                  current_chunk, current_chunk_size, part_num,
                                  compressed_files, binLog>>
  /\ UNCHANGED <<calls, tree, entry>>
  /\ UNCHANGED <<fsVars, remoteVars, ubVars, ufVars, slVars, usVars, netVars,
                 mkVars, thVars>>

\* split_large_directory called on its own.
split_large_directory ==
  /\ pc = "idle"
  /\ calls' = calls + 1
  /\ split_large_directory_enter("direct")
  /\ entry' = [op |-> "split", dir |-> srcDir, files |-> srcFiles]
  /\ UNCHANGED <<tree, srcDir, srcFiles, archives, zbRet, sdRet,
                 compressed_size>>
  /\ UNCHANGED <<fsVars, remoteVars, ubVars, ufVars, slVars, usVars, netVars,
                 mkVars, thVars>>

\* A splitter that never refuses a file for its size.
LargestAlwaysFits(t, sorted) == FALSE

\* "if sorted_files[0][1] > MAX_CHUNK_SIZE: return None"
LargestTooBig(t, sorted) == t[sorted[1]] > MAX_CHUNK_SIZE

\* Lines 783-820: the temporary directory, the size map, the sort and the
\* check of the largest file.
split_large_directory_start ==
  /\ pc = "sd_start"
  /\ LET file_sizes ==
           IF srcDir
             THEN NonEmptyFiles(tree, WalkFiles(srcFiles, Len(tree)))
             ELSE <<>>
         sorted == SortDesc(tree, file_sizes)
     IN \/ /\ split_large_directory_leave(NoneResult)
           /\ UNCHANGED <<sorted_files>>
        \/ /\ file_sizes = <<>>
           /\ split_large_directory_leave(NoneResult)
           /\ UNCHANGED <<sorted_files>>
        \/ /\ file_sizes # <<>>
           /\ IF LargestTooBig(tree, sorted)
                THEN /\ split_large_directory_leave(NoneResult)
                     /\ UNCHANGED <<sorted_files>>
                ELSE /\ sorted_files' = sorted
                     /\ pc' = "sd_loop"
                     /\ UNCHANGED <<sdRet, zbRet>>
  /\ sdIdx' = 1
  /\ UNCHANGED <<calls, tree, srcDir, srcFiles, archives, sdCaller,
                 current_chunk, current_chunk_size, part_num,
                 compressed_files, binLog, entry, compressed_size>>
  /\ UNCHANGED <<fsVars, remoteVars, ubVars, ufVars, slVars, usVars, netVars,
                 mkVars, thVars>>

\* A packer that closes the current bin before every file.
ClosesBinAlways(size, file_size, chunk) == chunk # <<>>

\* A packer that closes a bin the next file would fill exactly.
ClosesBinAtCapacity(size, file_size, chunk) ==
  size + file_size >= MAX_CHUNK_SIZE /\ chunk # <<>>

\* Whether the file about to be placed closes the current bin (line 824).
ClosesBin(size, file_size, chunk) ==
  size + file_size > MAX_CHUNK_SIZE /\ chunk # <<>>

\* A packer that carries the last file of a closed bin over into the next.
PlaceFileCarriesOver(chunk, file_path, closes) ==
  IF closes THEN <<chunk[Len(chunk)], file_path>>
  ELSE Append(chunk, file_path)

\* The bin the file goes into: a fresh one after the current bin was closed
\* (lines 854-858), else the current one.
PlaceFile(chunk, file_path, closes) ==
  IF closes THEN <<file_path>> ELSE Append(chunk, file_path)

\* One iteration of the packing loop (lines 822-859).
split_large_directory_loop ==
  /\ pc = "sd_loop"
  /\ sdIdx <= Len(sorted_files)
  /\ LET file_path == sorted_files[sdIdx]
         file_size == tree[file_path]
     IN IF ClosesBin(current_chunk_size, file_size, current_chunk)
          THEN \E o \in BinOutcomes(current_chunk) :
                 LET e == BinEntry(current_chunk, part_num, o)
                 IN /\ binLog' = Append(binLog, e)
                    /\ archives' = IF e.archive # NoArchive
                                     THEN [archives EXCEPT ![e.archive] = o.size]
                                     ELSE archives
                    /\ compressed_files' =
                         IF e.archive # NoArchive
                           THEN Append(compressed_files, e.archive)
                           ELSE compressed_files
                    /\ part_num' = IF o.kind = "nodir" THEN part_num
                                   ELSE part_num + 1
                    /\ current_chunk' = PlaceFile(current_chunk, file_path, TRUE)
                    /\ current_chunk_size' = file_size
          ELSE /\ current_chunk' = PlaceFile(current_chunk, file_path, FALSE)
               /\ current_chunk_size' = current_chunk_size + file_size
               /\ UNCHANGED <<binLog, archives, compressed_files, part_num>>
  /\ sdIdx' = sdIdx + 1
  /\ UNCHANGED <<pc, calls, tree, srcDir, srcFiles, zbRet, sdRet, sdCaller,
                 sorted_files, entry, compressed_size>>
  /\ UNCHANGED <<fsVars, remoteVars, ubVars, ufVars, slVars, usVars, netVars,
                 mkVars, thVars>>

\* After the loop (lines 861-898): the last bin, the cleaning of the
\* temporary directory and of the source directory, and the result.
split_large_directory_finish ==
  /\ pc = "sd_loop"
  /\ sdIdx > Len(sorted_files)
  /\ \E o \in BinOutcomes(current_chunk) :
       LET e == BinEntry(current_chunk, part_num, o)
           files == IF e.archive # NoArchive
                      THEN Append(compressed_files, e.archive)
                      ELSE compressed_files
       IN /\ binLog' = Append(binLog, e)
          /\ archives' = IF e.archive # NoArchive
                           THEN [archives EXCEPT ![e.archive] = o.size]
                           ELSE archives
          /\ compressed_files' = files
          /\ split_large_directory_leave(
               IF files = <<>> THEN NoneResult ELSE ListResult(files))
  /\ srcFiles' = clean_directory(srcFiles)
  /\ \E ok \in BOOLEAN : srcDir' = ok
  /\ UNCHANGED <<calls, tree, sdCaller, sorted_files, sdIdx, current_chunk,
                 current_chunk_size, part_num, entry, compressed_size>>
  /\ UNCHANGED <<fsVars, remoteVars, ubVars, ufVars, slVars, usVars, netVars,
                 mkVars, thVars>>

\* ---------------------------------------------------------------------
\* Initial states and the next-state relations
\* ---------------------------------------------------------------------
Contents == SeqsUpTo(Bytes, MaxFileSize)
Canonical(n) == [i \in 1..n |-> i % 2]

\* No call of the archiver or of the bin-packing splitter is under way.
sdInit ==
  /\ archives = [a \in ArchiveNames |-> NoFile]
  /\ zbRet = NoneResult /\ sdRet = NoneResult /\ sdCaller = "none"
  /\ entry = [op |-> "none", dir |-> FALSE, files |-> {}]
  /\ compressed_size = NoFile
  /\ sorted_files = <<>> /\ sdIdx = 0
  /\ current_chunk = <<>> /\ current_chunk_size = 0
  /\ part_num = 0 /\ compressed_files = <<>> /\ binLog = <<>>

NoTree == tree = <<>> /\ srcDir = FALSE /\ srcFiles = {}

\* ---------------------------------------------------------------------
\* upload_file in two threads (core.py 350-381; the threads of
\* periodic_backup_upload, 2371-2384)
\* ---------------------------------------------------------------------
\* The main loop uploads the archives it wrote to ~/.dev/pypi-Backup (lines
\* 2493-2498, 2525-2528); clipboard_upload_thread uploads the copy of the
\* clipboard log it made in <prefix>_temp_clipboard_logs below that
\* directory (lines 2264-2281).  Both call upload_file of the one
\* BackupManager.  File "A" is the main loop's, file "B" the upload
\* thread's.  Local reads and writes succeed here; the outcome of the k-th
\* delivery a thread makes is fixed by its field net, so that the run of a
\* thread on its own is determined.
Threads == {"main", "clipboard"}

ThreadFile(t) == IF t = "main" THEN "A" ELSE "B"

LocalDir(n) == IF n = "A" THEN "pypi-Backup" ELSE "temp_clipboard_logs"

\* One chunks directory for the files of every directory.
chunk_dir_common(n) == <<"pypi-Backup", "chunks">>

\* "chunk_dir = os.path.join(os.path.dirname(file_path), 'chunks')"
chunk_dir(n) == <<LocalDir(n), "chunks">>

\* _clean_directory(chunk_dir): every fragment in that directory goes.
CleanChunkDir(f, cd) ==
  [p \in Paths |->
     IF p.part # NoPart /\ chunk_dir(p.name) = cd THEN Absent ELSE f[p]]

NoThread ==
  [pc |-> "idle", chunk_files |-> <<>>, pos |-> 0, idx |-> 0,
   success |-> TRUE, ret |-> FALSE, net |-> <<>>, file0 |-> Absent]

\* _upload_single_file as one step of a thread, <<files after, result>>: a
\* missing path fails, an empty or oversize file is removed and refused, a
\* delivered file is removed, an undelivered one stays.
DeliverInThread(f, p, delivered) ==
  IF ~Exists(f, p) THEN <<f, FALSE>>
  ELSE IF Size(f, p) = 0 \/ Size(f, p) > MAX_SINGLE_FILE_SIZE
    THEN <<Remove(f, p), FALSE>>
  ELSE IF delivered THEN <<Remove(f, p), TRUE>>
  ELSE <<f, FALSE>>

Sequential ==
  UNCHANGED <<ctlVars, chunkDir, remoteVars, ubVars, ufVars, slVars, usVars,
              netVars, mkVars, packVars>>

\* The call and "if not self._is_valid_file(file_path): return False".
thread_upload_file(t) ==
  /\ threads[t].pc = "idle"
  /\ threads' = [threads EXCEPT
                   ![t].pc = IF is_valid_file(fs, Orig(ThreadFile(t)))
                               THEN "split" ELSE "done",
                   ![t].ret = FALSE]
  /\ UNCHANGED fs
  /\ Sequential

\* split_large_file up to its loop: None for a file within the ceiling.
thread_split_large_file(t) ==
  /\ threads[t].pc = "split"
  /\ LET p == Orig(ThreadFile(t))
     IN threads' = [threads EXCEPT
                      ![t].pc = IF ~Exists(fs, p)
                                   \/ Size(fs, p) <= MAX_SINGLE_FILE_SIZE
                                  THEN "single" ELSE "write",
                      ![t].pos = 0, ![t].chunk_files = <<>>]
  /\ UNCHANGED fs
  /\ Sequential

\* One turn of the loop of split_large_file: a window is read and written
\* to the next fragment; an empty window ends the loop.
thread_split_write(t) ==
  /\ threads[t].pc = "write"
  /\ LET n == ThreadFile(t)
         chunk_data == ReadWindow(fs[Orig(n)].data, threads[t].pos)
         chunk_path == Frag(n, Len(threads[t].chunk_files))
     IN IF Len(chunk_data) = 0
          THEN /\ threads' = [threads EXCEPT
                                ![t].pc = IF threads[t].chunk_files = <<>>
                                            THEN "single" ELSE "chunks",
                                ![t].idx = 1, ![t].success = TRUE]
               /\ UNCHANGED fs
          ELSE /\ fs' = [fs EXCEPT ![chunk_path] = File(chunk_data)]
               /\ threads' = [threads EXCEPT
                                ![t].chunk_files = Append(@, chunk_path),
                                ![t].pos = @ + Len(chunk_data)]
  /\ Sequential

\* One turn of "for chunk_file in chunk_files".
thread_upload_chunk(t) ==
  /\ threads[t].pc = "chunks"
  /\ threads[t].idx <= Len(threads[t].chunk_files)
  /\ LET k == threads[t].idx
         r == DeliverInThread(fs, threads[t].chunk_files[k], threads[t].net[k])
     IN /\ fs' = r[1]
        /\ threads' = [threads EXCEPT
                         ![t].success = Accumulate(@, r[2]),
                         ![t].idx = k + 1]
  /\ Sequential

\* After the loop: "if success:" the chunks directory is cleaned and the
\* original removed; "return success".
thread_upload_file_finish(t) ==
  /\ threads[t].pc = "chunks"
  /\ threads[t].idx > Len(threads[t].chunk_files)
  /\ fs' = IF threads[t].success
             THEN Remove(CleanChunkDir(fs, chunk_dir(ThreadFile(t))),
                         Orig(ThreadFile(t)))
             ELSE fs
  /\ threads' = [threads EXCEPT ![t].ret = threads[t].success,
                                ![t].pc = "done"]
  /\ Sequential

\* "else: return self._upload_single_file(file_path)"
thread_upload_single(t) ==
  /\ threads[t].pc = "single"
  /\ LET r == DeliverInThread(fs, Orig(ThreadFile(t)), threads[t].net[1])
     IN /\ fs' = r[1]
        /\ threads' = [threads EXCEPT ![t].ret = r[2], ![t].pc = "done"]
  /\ Sequential

InitSequential ==
  /\ pc = "idle" /\ calls = 0
  /\ chunkDir = FALSE
  /\ ubInit /\ ufInit /\ slInit /\ usInit /\ netInit /\ mkInit
  /\ sdInit

InitLocals ==
  /\ InitSequential
  /\ threads = [t \in Threads |-> NoThread]

\* Two local files, each missing or of any size up to MaxFileSize.
InitTwoFiles ==
  \E a, b \in -1..MaxFileSize :
    fs = [p \in Paths |->
            IF p = Orig("A") /\ a >= 0 THEN File(Canonical(a))
            ELSE IF p = Orig("B") /\ b >= 0 THEN File(Canonical(b))
            ELSE Absent]

\* The lists handed to upload_backup: the files of one backup round, each
\* named once.
Lists ==
  {l \in SeqsUpTo(Names, Cardinality(Names)) \ {<<>>} :
     \A i, j \in 1..Len(l) : l[i] = l[j] => i = j}

\* Delivery of a backup: upload_backup on the two files; the remote base
\* collection may or may not exist yet; providers answer with one success
\* and one failure outcome each.
Init ==
  /\ InitTwoFiles
  /\ remoteDirs \in {{}, {INFINI_REMOTE_BASE_DIR}}
  /\ NoTree
  /\ InitLocals

Next ==
  \/ \E arg \in Lists : upload_backup(arg, TRUE)
  \/ \E n \in Names : upload_backup(<<n>>, FALSE)
  \/ upload_backup_loop
  \/ upload_backup_result
  \/ upload_file_validate
  \/ upload_file_after_split
  \/ upload_file_chunk_loop
  \/ upload_file_result
  \/ split_large_file_start
  \/ split_large_file_read
  \/ upload_single_file_start
  \/ upload_single_file_after_infini
  \/ upload_single_file_after_gofile
  \/ upload_single_file_infini_start
  \/ upload_single_file_infini_probe
  \/ upload_single_file_infini_put(PutCoarse)
  \/ upload_single_file_gofile_start
  \/ upload_single_file_gofile_probe
  \/ upload_single_file_gofile_post(PostCoarse)
  \/ create_remote_directory_request(TRUE)
  \/ create_remote_directory_return

Spec == Init /\ [][Next]_vars

\* Delivery of one file: _upload_single_file on a file that is missing or
\* of any size, with every provider outcome.
InitDeliver ==
  /\ \E a \in -1..MaxFileSize :
       fs = [p \in Paths |->
               IF p = Orig("A") /\ a >= 0 THEN File(Canonical(a)) ELSE Absent]
  /\ remoteDirs \in {{}, {INFINI_REMOTE_BASE_DIR}}
  /\ NoTree
  /\ InitLocals

NextDeliver ==
  \/ \E n \in Names : upload_single_file(Orig(n))
  \/ upload_single_file_start
  \/ upload_single_file_after_infini
  \/ upload_single_file_after_gofile
  \/ upload_single_file_return
  \/ upload_single_file_infini_start
  \/ upload_single_file_infini_probe
  \/ upload_single_file_infini_put(PutOutcomes)
  \/ upload_single_file_gofile_start
  \/ upload_single_file_gofile_probe
  \/ upload_single_file_gofile_post(PostOutcomes)
  \/ create_remote_directory_request(FALSE)
  \/ create_remote_directory_return

SpecDeliver == InitDeliver /\ [][NextDeliver]_vars

\* The same under the scheduling of a sequential program: the call is
\* made, and control that has reached a statement executes it; every
\* probe and request returns, with an answer or by its timeout.
SpecDeliverLive == SpecDeliver /\ WF_vars(NextDeliver)

\* Chunk splitter alone: one file with any content over Bytes.
InitChunk ==
  /\ \E d \in Contents :
       fs = [p \in Paths |-> IF p = Orig("A") THEN File(d) ELSE Absent]
  /\ remoteDirs = {}
  /\ NoTree
  /\ InitLocals

NextChunk ==
  \/ \E n \in Names : split_large_file(Orig(n))
  \/ split_large_file_start
  \/ split_large_file_read
  \/ split_large_file_return

SpecChunk == InitChunk /\ [][NextChunk]_vars

\* Directory provisioner alone: a collection exists remotely only together
\* with all of its ancestors; up to MaxCalls successive calls.
InitMkcol ==
  /\ fs = [p \in Paths |-> Absent]
  /\ \E d \in SeqsUpTo(Components, MaxDepth) : remoteDirs = Ancestors(d)
  /\ NoTree
  /\ InitLocals

NextMkcol ==
  \/ \E d \in RemotePaths : create_remote_directory(d)
  \/ create_remote_directory_request(FALSE)
  \/ create_remote_directory_return

SpecMkcol == InitMkcol /\ [][NextMkcol]_vars

\* The two uploading threads, each on its own file, missing or of any size
\* up to MaxFileSize, with every outcome of each delivery.
InitThreads ==
  /\ InitTwoFiles
  /\ remoteDirs = {}
  /\ NoTree
  /\ InitSequential
  /\ \E nets \in [Threads -> [1..MaxParts -> BOOLEAN]] :
       threads = [t \in Threads |->
                    [NoThread EXCEPT !.net = nets[t],
                                     !.file0 = fs[Orig(ThreadFile(t))]]]

NextThreads ==
  \/ \E t \in Threads : thread_upload_file(t)
  \/ \E t \in Threads : thread_split_large_file(t)
  \/ \E t \in Threads : thread_split_write(t)
  \/ \E t \in Threads : thread_upload_chunk(t)
  \/ \E t \in Threads : thread_upload_file_finish(t)
  \/ \E t \in Threads : thread_upload_single(t)

SpecThreads == InitThreads /\ [][NextThreads]_vars

\* Producers of deliverable files: the archiver and the bin-packing
\* splitter on a source tree, the chunk splitter on one file.  A tree is
\* given by the sizes of its files in walk order; files whose sizes are
\* equal are interchangeable, so trees are taken in non-decreasing order of
\* size (the sort of split_large_directory then reverses them).
Trees ==
  {t \in SeqsUpTo(0..(MAX_CHUNK_SIZE + 1), MaxFiles) :
     \A i \in 1..(Len(t) - 1) : t[i] <= t[i + 1]}

InitPack ==
  /\ \/ /\ fs = [p \in Paths |-> Absent]
        /\ tree \in Trees
        /\ srcDir \in BOOLEAN
        /\ srcDir = FALSE => tree = <<>>
        /\ srcFiles = 1..Len(tree)
     \/ /\ \E d \in Contents \ {<<>>} :
             fs = [p \in Paths |-> IF p = Orig("A") THEN File(d) ELSE Absent]
        /\ NoTree
  /\ remoteDirs = {}
  /\ InitLocals

NextPack ==
  \/ zip_backup_folder
  \/ zip_backup_folder_tar
  \/ split_large_directory
  \/ split_large_directory_start
  \/ split_large_directory_loop
  \/ split_large_directory_finish
  \/ \E n \in Names : split_large_file(Orig(n))
  \/ split_large_file_start
  \/ split_large_file_read
  \/ split_large_file_return

SpecPack == InitPack /\ [][NextPack]_vars

\* ---------------------------------------------------------------------
\* Properties
\* ---------------------------------------------------------------------
\* upload_file has returned from delivering a file cut into n >= 2 fragments.
FragmentedReturn == pc = "uf_ret" /\ Len(ufChunks) >= 2

\* C1: when upload_file delivers an oversize file cut into n >= 2
\* fragments, then at return either some fragment failed and all n
\* fragments and the original still exist, or all fragments were delivered
\* and neither any fragment nor the original exists.
C1_AllOrNothingCleanup ==
  FragmentedReturn =>
    IF ufRet
      THEN /\ \A i \in 1..Len(ufChunks) : ~Exists(fs, ufChunks[i])
           /\ ~Exists(fs, ufPath)
      ELSE /\ \A i \in 1..Len(ufChunks) : Exists(fs, ufChunks[i])
           /\ Exists(fs, ufPath)

\* A partial failure: the first fragment was delivered, a later one was not.
C1_PartialFailure ==
  /\ FragmentedReturn
  /\ ~ufRet
  /\ ufLog[1] = TRUE
  /\ ~Exists(fs, ufChunks[1])
  /\ Exists(fs, ufPath)

\* _upload_single_file is at work on, or has returned from, a file that was
\* non-empty and within the ceiling when it was called.
DeliveringValidFile ==
  /\ usCaller = "direct"
  /\ usSize0 \in 1..MAX_SINGLE_FILE_SIZE

\* C2: for a non-empty file within the ceiling, _upload_single_file deletes
\* the file only after the primary PUT was answered 201 or 204 or a
\* secondary POST was answered OK with JSON status "ok", returns true only
\* in those cases, and returns false with the file still on disk when
\* every attempt on both tiers failed.
C2_DeleteOnlyAfterSuccess ==
  DeliveringValidFile =>
    /\ ~Exists(fs, usPath) => (putOK \/ postOK)
    /\ pc \in {"us_ret", "done"} =>
         /\ usRet => (putOK \/ postOK)
         /\ ~(putOK \/ postOK) => (~usRet /\ Exists(fs, usPath))

\* Every probe of both tiers reported offline: no PUT, no POST, the call
\* returns false and the file is still there.
C2_AllProbesOffline ==
  /\ DeliveringValidFile
  /\ pc = "us_ret"
  /\ nProbe = 2 * RETRY_COUNT /\ nPut = 0 /\ nPost = 0
  /\ ~usRet /\ Exists(fs, usPath)

RECURSIVE ConcatFragments(_, _)
ConcatFragments(f, paths) ==
  IF paths = <<>> THEN <<>>
  ELSE f[Head(paths)].data \o ConcatFragments(f, Tail(paths))

\* split_large_file has returned a list of fragments to a direct caller.
SplitReturned ==
  /\ pc \in {"sl_ret", "done"}
  /\ slCaller = "direct"
  /\ ~slRet.isNone

\* C3: the fragments split_large_file returns, concatenated in order, are
\* byte for byte the original file, also when the size of the file is an
\* exact multiple of CHUNK_SIZE.
C3_FragmentsReassemble ==
  SplitReturned =>
    /\ \A i \in 1..Len(slRet.files) : Exists(fs, slRet.files[i])
    /\ ConcatFragments(fs, slRet.files) = fs[slPath].data

\* A file of exactly two chunks was cut into exactly two fragments.
C3_ExactMultiple ==
  /\ SplitReturned
  /\ Size(fs, slPath) = 2 * CHUNK_SIZE
  /\ Len(slRet.files) = 2
  /\ Size(fs, slRet.files[2]) = CHUNK_SIZE

\* C4: every path returned by zip_backup_folder, by split_large_directory
\* or by split_large_file names an existing file whose size is at most
\* MAX_SINGLE_FILE_SIZE, whatever the tree, the file and the sizes of the
\* archives written.
C4_ReturnedWithinCeiling ==
  /\ \A i \in 1..Len(zbRet.files) :
       /\ archives[zbRet.files[i]] # NoFile
       /\ archives[zbRet.files[i]] <= MAX_SINGLE_FILE_SIZE
  /\ \A i \in 1..Len(sdRet.files) :
       /\ archives[sdRet.files[i]] # NoFile
       /\ archives[sdRet.files[i]] <= MAX_SINGLE_FILE_SIZE
  /\ SplitReturned =>
       \A i \in 1..Len(slRet.files) :
         /\ Exists(fs, slRet.files[i])
         /\ Size(fs, slRet.files[i]) <= MAX_SINGLE_FILE_SIZE

\* zip_backup_folder handed the tree to split_large_directory, which
\* returned two or more archives although the archive of one fully staged
\* bin was discarded.
C4_ArchivesAfterRejection ==
  /\ pc = "done" /\ sdCaller = "zip"
  /\ zbRet.kind = "list" /\ Len(zbRet.files) >= 2
  /\ \E b \in 1..Len(binLog) :
       binLog[b].staging = "complete" /\ binLog[b].archive = NoArchive

CeilDiv(a, b) == (a + b - 1) \div b

\* split_large_directory has packed all files it enumerated.
PackFinished ==
  /\ pc = "done"
  /\ sorted_files # <<>>
  /\ sdIdx > Len(sorted_files)

\* C5: for nonzero file sizes none of which exceeds the bin capacity, the
\* number of bins split_large_directory forms is at most
\* ceil(totalSize / capacity) + 1.
C5_BinsWithinCeilPlusOne ==
  PackFinished =>
    Len(binLog) <= CeilDiv(SumSizes(tree, sorted_files), MAX_CHUNK_SIZE) + 1

\* C5 as the code has it: consecutive bins together exceed the capacity, so
\* the number of bins is at most 2 * ceil(totalSize / capacity) - 1.
C5_BinsWithinTwiceCeil ==
  PackFinished =>
    Len(binLog) <= 2 * CeilDiv(SumSizes(tree, sorted_files), MAX_CHUNK_SIZE) - 1

\* A packing with more bins than ceil(totalSize / capacity) + 1.
C5_ManyHalfFullBins ==
  /\ PackFinished
  /\ Len(binLog) > CeilDiv(SumSizes(tree, sorted_files), MAX_CHUNK_SIZE) + 1

\* Bin b of binLog holds file f; f is held by exactly one bin, once.
Holds(b, f) == \E j \in 1..Len(binLog[b].files) : binLog[b].files[j] = f

InOneBin(f) ==
  \E b \in 1..Len(binLog) :
    /\ Cardinality({j \in 1..Len(binLog[b].files) : binLog[b].files[j] = f}) = 1
    /\ \A c \in 1..Len(binLog) : Holds(c, f) => c = b

\* C6: every file split_large_directory enumerated is assigned whole to
\* exactly one bin and is copied into the staging subtree of that bin and
\* of no other.
C6_AssignedAndCopiedOnce ==
  PackFinished =>
    \A i \in 1..Len(sorted_files) :
      /\ InOneBin(sorted_files[i])
      /\ \A b \in 1..Len(binLog) :
           sorted_files[i] \in binLog[b].staged <=> Holds(b, sorted_files[i])

\* C6 as the code has it: every enumerated file is assigned whole to
\* exactly one bin; it is copied into no staging subtree but that bin's,
\* and into that bin's whenever the staging of the bin ran to completion.
C6_AssignedOnceCopiedIfStaged ==
  PackFinished =>
    \A i \in 1..Len(sorted_files) :
      /\ InOneBin(sorted_files[i])
      /\ \A b \in 1..Len(binLog) :
           /\ sorted_files[i] \in binLog[b].staged => Holds(b, sorted_files[i])
           /\ (binLog[b].staging = "complete" /\ Holds(b, sorted_files[i]))
                => sorted_files[i] \in binLog[b].staged

\* Two bins or more, one whose staging broke off at a copy and one whose
\* staging ran to completion.
C6_OneBinBrokenOneStaged ==
  /\ PackFinished
  /\ \E b, c \in 1..Len(binLog) :
       /\ binLog[b].staging = "copyfail"
       /\ Len(binLog[b].files) >= 2
       /\ binLog[c].staging = "complete"
       /\ binLog[c].staged # {}

\* The call of _create_remote_directory that just returned was the second
\* of two successive calls on the same path, and the store answered every
\* request of both calls faithfully (see StoreAnswer).
SecondCallSamePath ==
  /\ pc = "idle" /\ mkCaller = "direct"
  /\ mkPrev.valid /\ mkPrev.dir = mkDir
  /\ mkPrev.faithful /\ mkFaithful

\* C7: against a store that answers "created" for a missing collection
\* whose parent exists and "already exists" for an existing one, two
\* successive calls of _create_remote_directory on the same path both
\* return true and the second leaves the remote collections unchanged.
C7_ProvisioningIdempotent ==
  SecondCallSamePath =>
    /\ mkPrev.ret /\ mkRet
    /\ remoteDirs = mkDirs0

\* The second call on a nested path found the collection in place: one
\* request, answered "already exists".
C7_SecondCallFindsCollection ==
  /\ SecondCallSamePath
  /\ Len(mkDir) >= 2 /\ mkDir \in remoteDirs
  /\ nMkcol = 1 /\ lastResp = "mkcol_ok"
  /\ mkRet /\ mkPrev.ret

\* The positions of a delivery at which the secondary tier has not begun.
PrimaryPhase ==
  {"us_start", "inf_start", "mk_request", "mk_return", "inf_loop", "inf_put",
   "us_after_inf"}

\* C8: in the delivery of one file no request goes to a secondary endpoint
\* before the primary tier has used all RETRY_COUNT attempts without
\* success, none goes out after a primary PUT succeeded, and when the
\* primary tier is exhausted and a secondary endpoint answers ok the
\* delivery returns true.
C8_SecondaryOnlyAfterPrimary ==
  usCaller = "direct" =>
    /\ pc \in PrimaryPhase => nPost = 0
    /\ pc = "gf_start" => (attempt = RETRY_COUNT /\ ~putOK)
    /\ putOK => nPost = 0
    /\ (pc \in {"us_ret", "done"} /\ postOK) => usRet

\* The primary tier failed RETRY_COUNT PUTs, the first secondary endpoint
\* answered with a non-JSON body, the second with status ok.
C8_SecondEndpointRescues ==
  /\ usCaller = "direct" /\ pc = "us_ret"
  /\ nPut = RETRY_COUNT /\ ~putOK
  /\ nPost = 2 /\ lastResp = "ok" /\ postOK
  /\ usRet /\ ~Exists(fs, usPath)

\* C9: given a list, upload_backup invokes upload_file once for every
\* element in list order, also after an earlier element failed, and
\* returns true if and only if every one of these invocations returned
\* true.
C9_EveryFileAttempted ==
  ubIsList =>
    /\ Len(ubLog) <= Len(ubArg)
    /\ \A i \in 1..Len(ubLog) : ubLog[i][1] = ubArg[i]
    /\ pc = "done" =>
         /\ Len(ubLog) = Len(ubArg)
         /\ ubRet <=> \A i \in 1..Len(ubLog) : ubLog[i][2]

\* The first file of a list failed, the second was delivered all the same.
C9_SecondAfterFailedFirst ==
  /\ ubIsList /\ pc = "done"
  /\ Len(ubLog) = 2
  /\ ~ubLog[1][2] /\ ubLog[2][2]
  /\ ~ubRet

\* upload_file has returned; what its argument was when it was called.
DeliverReturned == pc = "uf_ret"
WasMissing == ~Exists(ufFs0, ufPath)
WasEmpty == Exists(ufFs0, ufPath) /\ Size(ufFs0, ufPath) = 0
WasOversize ==
  Exists(ufFs0, ufPath) /\ Size(ufFs0, ufPath) > MAX_SINGLE_FILE_SIZE

\* C10: handed a path that does not exist, an empty file or a file larger
\* than the ceiling, the delivery returns false without any network
\* request, and the file, if present, has been deleted when it returns.
C10_RefusedAndDeleted ==
  (DeliverReturned /\ (WasMissing \/ WasEmpty \/ WasOversize)) =>
    /\ ~ufRet
    /\ ~ufNet
    /\ ~Exists(fs, ufPath)

\* C10 as the code has it: upload_file refuses a missing path and an empty
\* file without any network request and leaves the disk as it was, the
\* empty file included; an oversize file is cut and its fragments are
\* delivered over the network; only when the cut fails is the oversize
\* file deleted and refused without any network request.
C10_RefusedUntouchedOrSplit ==
  DeliverReturned =>
    /\ (WasMissing \/ WasEmpty) => (~ufRet /\ ~ufNet /\ fs = ufFs0)
    /\ (WasOversize /\ ufChunks = <<>>) =>
         (~ufRet /\ ~ufNet /\ ~Exists(fs, ufPath))
    /\ (WasOversize /\ ufChunks # <<>>) =>
         (ufNet /\ Len(ufLog) = Len(ufChunks))

\* An empty file was refused and is still on disk.
C10_EmptyFileSurvives ==
  /\ DeliverReturned /\ WasEmpty
  /\ ~ufRet /\ ~ufNet
  /\ Exists(fs, ufPath)

\* The source tree a packaging call found, in the terms of the claims.
EntryFiles == WalkFiles(entry.files, Len(tree))

EntrySize == SumSizes(tree, NonEmptyFiles(tree, EntryFiles))

SourceUntouched == srcFiles = entry.files /\ srcDir = entry.dir

NoArchiveOnDisk == \A a \in DOMAIN archives : archives[a] = NoFile

\* C11: a zip_backup_folder call on a missing directory, on a directory
\* without files, or on one whose non-empty files add up to 0 has returned
\* failure at once, with no archive on disk, the splitter never entered and
\* the source tree as it was.
C11_DegenerateSourceRefused ==
  (entry.op = "zip" /\ (~entry.dir \/ Len(EntryFiles) = 0 \/ EntrySize = 0))
    => /\ pc = "done"
       /\ zbRet = NoneResult
       /\ NoArchiveOnDisk
       /\ sdCaller = "none" /\ binLog = <<>>
       /\ SourceUntouched

\* C11 witness: a directory that holds files, all of them empty, was refused.
C11_OnlyEmptyFilesRefused ==
  /\ entry.op = "zip" /\ entry.dir
  /\ Len(EntryFiles) > 0 /\ EntrySize = 0
  /\ pc = "done" /\ zbRet = NoneResult

SingleReturned == entry.op = "zip" /\ pc = "done" /\ zbRet.kind = "path"

\* C12 as stated: whenever zip_backup_folder returned the path of a single
\* archive, the source directory no longer exists.
C12_SourceDirectoryGone == SingleReturned => ~srcDir

\* C12: whenever zip_backup_folder returned the path of a single archive,
\* every file the source directory held has been removed (the directory
\* itself is created again by _clean_directory).
C12_SourceDirectoryEmptied ==
  SingleReturned => (entry.files # {} /\ srcFiles = {})

\* C12 witness: a single archive was returned and the source directory
\* exists, empty.
C12_EmptyDirectoryRemains ==
  SingleReturned /\ srcDir /\ srcFiles = {} /\ entry.files # {}

\* C13: zip_backup_folder hands the tree to split_large_directory, returns
\* exactly what that call returned and leaves no single archive behind, both
\* when the tree is larger than MAX_SOURCE_DIR_SIZE (the single archive is
\* then never written) and when the archive written is larger than
\* MAX_SINGLE_FILE_SIZE (it is removed first); an archive of size 0 is
\* removed and the call fails without entering the splitter.
C13_DelegatesToSplitter ==
  entry.op = "zip" =>
    /\ (entry.dir /\ EntrySize > MAX_SOURCE_DIR_SIZE) =>
         /\ sdCaller = "zip" /\ compressed_size = NoFile
         /\ pc # "zb_tar"
    /\ compressed_size > MAX_SINGLE_FILE_SIZE => sdCaller = "zip"
    /\ sdCaller = "zip" =>
         /\ archives[Single] = NoFile
         /\ pc = "done" => zbRet = sdRet
    /\ compressed_size = 0 =>
         /\ pc = "done" /\ zbRet = NoneResult
         /\ archives[Single] = NoFile
         /\ sdCaller = "none" /\ binLog = <<>>

\* C13 witness: an oversize single archive was removed and the call returned
\* the archives the splitter produced.
C13_SplitAfterOversizeArchive ==
  /\ entry.op = "zip" /\ compressed_size > MAX_SINGLE_FILE_SIZE
  /\ pc = "done" /\ zbRet.kind = "list" /\ zbRet = sdRet
  /\ archives[Single] = NoFile

\* The packaging call under way has returned failure.
PackagingFailed ==
  /\ pc = "done"
  /\ \/ entry.op = "zip" /\ zbRet = NoneResult
     \/ entry.op = "split" /\ sdRet = NoneResult

\* C14: whenever zip_backup_folder or split_large_directory returned
\* failure, the source tree still holds every file it held before the call.
C14_FailureKeepsSource == PackagingFailed => SourceUntouched

\* C14 witness: the call returned failure, no archive exists, and the files
\* of the source tree are gone.
C14_SourceLostOnFailure ==
  /\ PackagingFailed /\ NoArchiveOnDisk
  /\ entry.files # {} /\ srcFiles = {}

\* The nonzero-size files of the tree split_large_directory was called on.
EntryNonEmpty ==
  IF entry.dir THEN NonEmptyFiles(tree, EntryFiles) ELSE <<>>

EntryLargestOversize ==
  \E i \in 1..Len(EntryNonEmpty) : tree[EntryNonEmpty[i]] > MAX_CHUNK_SIZE

\* C15: once split_large_directory is past its checks on a tree without a
\* nonzero-size file, or on one whose largest file alone exceeds the bin
\* capacity, it has returned failure, formed no bin and produced no archive.
C15_UnpackableTreeRefused ==
  (sdCaller # "none" /\ pc # "sd_start"
     /\ (EntryNonEmpty = <<>> \/ EntryLargestOversize))
    => /\ pc = "done" /\ sdRet = NoneResult
       /\ binLog = <<>> /\ compressed_files = <<>>
       /\ NoArchiveOnDisk

\* C15 witness: a tree of several files, one of them larger than the bin
\* capacity, was refused by split_large_directory.
C15_OversizeFileRefused ==
  /\ sdCaller = "direct" /\ pc = "done" /\ sdRet = NoneResult
  /\ EntryLargestOversize /\ Len(EntryNonEmpty) > 2

\* Reference packers over the files in the order given.  Bins are sequences
\* of files, in the order in which they were opened.
Fits(t, bin, f) == SumSizes(t, bin) + t[f] <= MAX_CHUNK_SIZE

\* First fit: the lowest-indexed bin with room, a new bin if none has room.
FirstFitPlace(t, bins, f) ==
  IF \E i \in 1..Len(bins) : Fits(t, bins[i], f)
    THEN LET i == CHOOSE k \in 1..Len(bins) :
                    /\ Fits(t, bins[k], f)
                    /\ \A j \in 1..(k - 1) : ~Fits(t, bins[j], f)
         IN [bins EXCEPT ![i] = Append(bins[i], f)]
    ELSE Append(bins, <<f>>)

RECURSIVE FirstFit(_, _)
FirstFit(t, files) ==
  IF files = <<>> THEN <<>>
  ELSE FirstFitPlace(t, FirstFit(t, Front(files)), files[Len(files)])

\* Next fit: the bin opened last if it has room, else a new bin.
NextFitPlace(t, bins, f) ==
  IF bins # <<>> /\ Fits(t, bins[Len(bins)], f)
    THEN [bins EXCEPT ![Len(bins)] = Append(bins[Len(bins)], f)]
    ELSE Append(bins, <<f>>)

RECURSIVE NextFit(_, _)
NextFit(t, files) ==
  IF files = <<>> THEN <<>>
  ELSE NextFitPlace(t, NextFit(t, Front(files)), files[Len(files)])

\* A packing as a partition: the set of the sets of files of its bins.
Partition(bins) ==
  {{bins[b][j] : j \in 1..Len(bins[b])} : b \in 1..Len(bins)}

BinsFormed == [b \in 1..Len(binLog) |-> binLog[b].files]

\* The files in the order given are the nonzero-size files of the tree the
\* call found, each once, largest first.
Descending(files) ==
  /\ Len(files) = Len(EntryNonEmpty)
  /\ {files[i] : i \in 1..Len(files)}
       = {EntryNonEmpty[i] : i \in 1..Len(EntryNonEmpty)}
  /\ \A i \in 1..(Len(files) - 1) : tree[files[i]] >= tree[files[i + 1]]

C19_BinsClosedAtCapacity ==
  (sdCaller # "none" /\ pc \in {"sd_loop", "done"}) =>
    /\ \A b \in 1..Len(binLog) :
         /\ binLog[b].files # <<>>
         /\ SumSizes(tree, binLog[b].files) <= MAX_CHUNK_SIZE
    /\ \A b \in 1..(Len(binLog) - 1) :
         SumSizes(tree, binLog[b].files) + tree[binLog[b + 1].files[1]]
           > MAX_CHUNK_SIZE
    /\ pc = "sd_loop" =>
         /\ current_chunk_size = SumSizes(tree, current_chunk)
         /\ current_chunk_size <= MAX_CHUNK_SIZE
         /\ (binLog # <<>> /\ current_chunk # <<>>) =>
              SumSizes(tree, binLog[Len(binLog)].files) + tree[current_chunk[1]]
                > MAX_CHUNK_SIZE

\* C19 witness: a finished packing of three bins or more, one of them filled
\* to the capacity exactly by two files or more.
C19_BinFilledExactly ==
  /\ PackFinished /\ Len(binLog) >= 3
  /\ \E b \in 1..Len(binLog) :
       /\ Len(binLog[b].files) >= 2
       /\ SumSizes(tree, binLog[b].files) = MAX_CHUNK_SIZE

\* States of one delivery, as far as the claims name them.
PrimaryExhausted ==
  pc = "us_after_inf" /\ ~tierRet /\ attempt = RETRY_COUNT

SecondaryAttempt == pc \in {"gf_start", "gf_loop", "gf_post"}

SecondaryExhausted ==
  pc = "us_after_gf" /\ ~tierRet /\ attempt = RETRY_COUNT

Returned == pc \in {"us_ret", "done"}

PrimarySuccess == Returned /\ usRet /\ putOK

SecondarySuccess == Returned /\ usRet /\ postOK

Failed == Returned /\ ~usRet

Requests == <<nProbe, nMkcol, nPut, nPost, lastSleep>>

\* A returned delivery is in exactly one of the three terminal states.
OneTerminalState ==
  Returned =>
    /\ \/ PrimarySuccess /\ ~SecondarySuccess /\ ~Failed
       \/ SecondarySuccess /\ ~PrimarySuccess /\ ~Failed
       \/ Failed /\ ~PrimarySuccess /\ ~SecondarySuccess
    /\ Failed => ~(putOK \/ postOK)

\* The edges the claim names, and no probe, request or sleep once the
\* delivery has returned.
NamedEdgesOnly ==
  /\ (SecondaryAttempt' /\ ~SecondaryAttempt) => PrimaryExhausted
  /\ (Failed' /\ ~Failed) => SecondaryExhausted
  /\ Returned => (Returned' /\ Requests' = Requests /\ usRet' = usRet)

\* C17 as stated: every call of _upload_single_file returns, in exactly one
\* of PrimarySuccess, SecondarySuccess and Failed; the secondary tier is
\* entered only from PrimaryExhausted, Failed only from SecondaryExhausted;
\* and once the delivery has returned no probe, request or sleep follows.
C17_EveryDeliveryStateMachine ==
  /\ (pc = "us_start") ~> (pc = "done")
  /\ []OneTerminalState
  /\ [][NamedEdgesOnly]_vars

\* C17: every call of _upload_single_file returns; the delivery of a file
\* that passed validation (it exists, is non-empty and within the ceiling)
\* ends in exactly one of PrimarySuccess, SecondarySuccess and Failed; its
\* secondary tier is entered only from PrimaryExhausted, Failed only from
\* SecondaryExhausted; a file refused by validation fails at once, without
\* any request; and once a delivery has returned no probe, request or sleep
\* follows.
C17_DeliveryStateMachine ==
  /\ (pc = "us_start") ~> (pc = "done")
  /\ [](DeliveringValidFile => OneTerminalState)
  /\ []((usCaller = "direct" /\ ~DeliveringValidFile /\ pc # "us_start")
          => (Failed /\ Requests = <<0, 0, 0, 0, 0>>))
  /\ [][(DeliveringValidFile => NamedEdgesOnly)
         /\ (Returned => (Returned' /\ Requests' = Requests /\ usRet' = usRet))
       ]_vars

\* C17 witness: a delivery that returned false after RETRY_COUNT PUTs and
\* RETRY_COUNT rounds over all secondary endpoints.
C17_FailedAfterBothTiers ==
  /\ DeliveringValidFile /\ pc = "done" /\ Failed
  /\ nPut = RETRY_COUNT /\ nPost = RETRY_COUNT * NumServers

\* The retry of an activation of _create_remote_directory is made only
\* after its parent was provisioned, and every activation on the stack but
\* the topmost waits for the call it made on its parent.
RetryOnlyAfterParent ==
  \A i \in 1..Len(mkStack) :
    /\ i < Len(mkStack) =>
         /\ mkStack[i].phase = "wait"
         /\ mkStack[i + 1].dir = Dirname(mkStack[i].dir)
    /\ (i = Len(mkStack) /\ mkStack[i].phase = "retry") =>
         (pc = "mk_request" /\ mkRet)

\* C20: an activation re-issues its create request only after the call on
\* its parent returned true, once, and a call of _create_remote_directory
\* on a path of d components issues at most 2 * d create requests (d counts
\* the leading "/" of an absolute path as a component).
C20_AtMostTwoRequestsPerComponent ==
  mkCaller = "direct" =>
    /\ RetryOnlyAfterParent
    /\ nMkcol <= 2 * Len(mkDir)

\* C20 witness: a call on the absolute path "/a" returned false after one
\* request per activation the interpreter allowed, more than 2 * d.
C20_RootProvisionedAgainAndAgain ==
  /\ mkCaller = "direct" /\ pc = "idle" /\ mkStack = <<>>
  /\ mkDir = <<Root, "a">>
  /\ nMkcol = MaxRecursion /\ nMkcol > 2 * Len(mkDir)
  /\ ~mkRet

\* What upload_file does when it runs alone on a file with content file0
\* and delivery outcomes net: its result, and what it leaves at the path of
\* the original and of each fragment.
AloneFragments(file0) ==
  IF file0.ex /\ Len(file0.data) > MAX_SINGLE_FILE_SIZE
    THEN CeilDiv(Len(file0.data), CHUNK_SIZE) ELSE 0

AloneResult(file0, net) ==
  IF ~file0.ex \/ Len(file0.data) = 0 THEN FALSE
  ELSE IF AloneFragments(file0) = 0 THEN net[1]
  ELSE \A k \in 1..AloneFragments(file0) : net[k]

AloneLeaves(file0, net, part) ==
  IF AloneResult(file0, net) THEN Absent
  ELSE IF part = NoPart THEN file0
  ELSE IF part < AloneFragments(file0) /\ ~net[part + 1]
    THEN File(SubSeq(file0.data, part * CHUNK_SIZE + 1,
                     Min((part + 1) * CHUNK_SIZE, Len(file0.data))))
  ELSE Absent

AsIfAlone(t) ==
  /\ threads[t].ret = AloneResult(threads[t].file0, threads[t].net)
  /\ \A p \in Paths :
       p.name = ThreadFile(t) =>
         fs[p] = AloneLeaves(threads[t].file0, threads[t].net, p.part)

\* C18: in every interleaving of the upload_file calls the main loop and
\* the upload thread make on their files, each call that has returned
\* returned what it returns when it runs alone, and left its file and its
\* fragments as it leaves them when it runs alone.
C18_ThreadsDoNotInterfere ==
  \A t \in Threads : threads[t].pc = "done" => AsIfAlone(t)

\* C18 witness: both threads fragmented their files; the main loop
\* delivered every fragment and cleaned its chunks directory, the upload
\* thread returned false and a fragment of its file is still there.
C18_CleanedBesideLeftovers ==
  /\ \A t \in Threads : threads[t].pc = "done" /\ Len(threads[t].chunk_files) >= 2
  /\ threads["main"].ret /\ ~threads["clipboard"].ret
  /\ \E k \in 0..(MaxParts - 1) : Exists(fs, Frag("B", k))

\* A step in which the topmost activation of _create_remote_directory
\* issues a MKCOL, and the two ways the activation ends on the answer.
MkcolIssued == nMkcol' = nMkcol + 1

ActivationReturns(result) ==
  /\ mkRet' = result
  /\ pc' = "mk_return"
  /\ mkStack' = Front(mkStack)

TrivialCallDone ==
  (mkCaller = "direct" /\ IsTrivialDir(mkDir)) =>
    (pc = "idle" /\ mkRet /\ nMkcol = 0)

\* C21 as stated: a call on the empty path or on "." returns true without
\* a request; a create request answered with any 2xx status or with 405
\* makes the activation return true; every other answer but 409, and a
\* transport failure, makes it return false without a call on the parent
\* and without a retry.
C21_Any2xxSucceeds ==
  /\ []TrivialCallDone
  /\ [][MkcolIssued =>
          /\ (mkStatus' \in (200..299) \cup {405}) => ActivationReturns(TRUE)
          /\ (mkStatus' \notin (200..299) \cup {405, 409})
               => ActivationReturns(FALSE)
       ]_vars

\* C21: a call on the empty path or on "." returns true without a request;
\* a create request answered 201, 204 or 405 makes the activation return
\* true; every other answer but 409 (200 among them), and a transport
\* failure, makes it return false without a call on the parent and without
\* a retry.
C21_OnlyCreatedNoContentExists ==
  /\ []TrivialCallDone
  /\ [][MkcolIssued =>
          /\ (mkStatus' \in {201, 204, 405}) => ActivationReturns(TRUE)
          /\ (mkStatus' \notin {201, 204, 405, 409})
               => ActivationReturns(FALSE)
       ]_vars

\* C21 witness: a call on a nested path whose one request was answered 200
\* returned false.
C21_OkAnswerRefused ==
  /\ mkCaller = "direct" /\ pc = "idle" /\ calls > 0
  /\ Len(mkDir) >= 2 /\ nMkcol = 1 /\ mkStatus = 200
  /\ ~mkRet

\* Control is inside the retry loop of the primary tier or at its return.
InPrimaryLoop == pc \in {"inf_loop", "inf_put", "us_after_inf"}

\* A step of the primary tier that issues a PUT.
PutIssued == nPut' = nPut + 1

\* C22: in the primary tier at most RETRY_COUNT PUTs are issued for one
\* file; a PUT answered 201 or 204 ends the tier with success and no PUT
\* follows it; every other outcome of a PUT consumes exactly one attempt
\* and leads back to the head of the loop, where the next attempt starts if
\* one remains; and the tier reports failure only when RETRY_COUNT attempts
\* were consumed.
C22_PrimaryRetries ==
  /\ [](DeliveringValidFile =>
          /\ nPut <= RETRY_COUNT
          /\ InPrimaryLoop => (nPut <= attempt + 1 /\ attempt <= RETRY_COUNT)
          /\ (pc = "us_after_inf" /\ ~tierRet) => attempt = RETRY_COUNT
          /\ (pc = "us_after_inf" /\ tierRet) =>
               (lastResp \in {"created", "nocontent"} /\ attempt < RETRY_COUNT))
  /\ [][DeliveringValidFile =>
          /\ PutIssued =>
               IF lastResp' \in {"created", "nocontent"}
                 THEN tierRet' /\ pc' = "us_after_inf" /\ attempt' = attempt
                 ELSE ~tierRet' /\ pc' = "inf_loop" /\ attempt' = attempt + 1
          /\ putOK => nPut' = nPut
          /\ (pc = "inf_loop" /\ attempt < RETRY_COUNT) =>
               (nProbe' = nProbe + 1 /\ pc' \in {"inf_loop", "inf_put"})
       ]_vars

\* C22 witness: three online attempts each issued a PUT that failed, the
\* last with a conflict, and the primary tier reported failure.
C22_ThreeFailuresExhaust ==
  /\ DeliveringValidFile /\ pc = "us_after_inf" /\ ~tierRet
  /\ nPut = RETRY_COUNT /\ attempt = RETRY_COUNT /\ nProbe = RETRY_COUNT
  /\ lastResp = "conflict"

\* A step that probes connectivity and finds the network offline.
ProbedOffline == nProbe' = nProbe + 1 /\ lastResp' = "offline"

\* The primary tier returned after RETRY_COUNT probes that all reported
\* offline.
AllProbesOffline ==
  /\ DeliveringValidFile /\ pc = "us_after_inf" /\ ~tierRet
  /\ nProbe = RETRY_COUNT /\ nPut = 0

\* An offline attempt of the primary tier sends no request and is consumed
\* after a RETRY_DELAY sleep; a PUT follows an online probe immediately.
OfflineAttemptSilent ==
  [][DeliveringValidFile =>
       /\ (pc = "inf_loop" /\ ProbedOffline) =>
            /\ nPut' = nPut /\ nMkcol' = nMkcol
            /\ lastSleep' = RETRY_DELAY /\ attempt' = attempt + 1
            /\ pc' = "inf_loop"
       /\ PutIssued => (lastResp = "online" /\ nProbe > 0)
    ]_vars

PostIssued == nPost' = nPost + 1

\* Control is inside the retry loop of the secondary tier or at its return.
InSecondaryLoop == pc \in {"gf_loop", "gf_post", "us_after_gf"}

\* C24: each of at most RETRY_COUNT attempts of the secondary tier starts
\* with a connectivity probe; an offline attempt posts nothing and sleeps
\* 2 * RETRY_DELAY; an online attempt posts to the endpoints in configured
\* order, one POST per endpoint, and the first "ok" answer returns true;
\* when the last endpoint failed the attempt ends, with a RETRY_DELAY sleep
\* if another attempt follows; no more than RETRY_COUNT * NumServers POSTs
\* are sent for one file.
C24_SecondaryPool ==
  /\ [](DeliveringValidFile =>
          /\ nPost <= RETRY_COUNT * NumServers
          /\ (InSecondaryLoop /\ ~tierRet) =>
               (attempt <= RETRY_COUNT /\ nPost <= attempt * NumServers + server)
          /\ pc = "gf_post" => (attempt < RETRY_COUNT /\ server \in 1..NumServers)
          /\ (pc = "us_after_gf" /\ ~tierRet) => attempt = RETRY_COUNT
          /\ (pc = "us_after_gf" /\ tierRet) => lastResp = "ok")
  /\ [][DeliveringValidFile =>
          /\ (pc = "gf_loop" /\ attempt < RETRY_COUNT) => nProbe' = nProbe + 1
          /\ (pc = "gf_loop" /\ ProbedOffline) =>
               /\ nPost' = nPost /\ lastSleep' = 2 * RETRY_DELAY
               /\ attempt' = attempt + 1 /\ pc' = "gf_loop"
          /\ (pc = "gf_loop" /\ nProbe' = nProbe + 1 /\ lastResp' = "online") =>
               (pc' = "gf_post" /\ server' = 1 /\ attempt' = attempt)
          /\ PostIssued =>
               /\ pc = "gf_post"
               /\ IF lastResp' = "ok"
                    THEN tierRet' /\ pc' = "us_after_gf"
                    ELSE /\ ~tierRet'
                         /\ IF server < NumServers
                              THEN /\ server' = server + 1 /\ pc' = "gf_post"
                                   /\ attempt' = attempt
                              ELSE /\ attempt' = attempt + 1 /\ pc' = "gf_loop"
                                   /\ lastSleep' = IF attempt' < RETRY_COUNT
                                                     THEN RETRY_DELAY ELSE 0
          /\ postOK => nPost' = nPost
       ]_vars

\* C24 witness: every endpoint refused the file in each of the RETRY_COUNT
\* attempts, and the secondary tier reported failure.
C24_WholePoolFailedThrice ==
  /\ DeliveringValidFile /\ pc = "us_after_gf" /\ ~tierRet
  /\ nPost = RETRY_COUNT * NumServers /\ attempt = RETRY_COUNT

\* C25: split_large_file returns None and creates neither a file nor the
\* fragment directory for a file that is missing or no larger than
\* MAX_SINGLE_FILE_SIZE; the list it returns for a larger file of size s
\* has exactly ceil(s / CHUNK_SIZE) fragments, named after the file with
\* the ordinals 0, 1, 2, ... in list order, each of CHUNK_SIZE bytes but
\* the last, which holds between 1 and CHUNK_SIZE bytes.
C25_FragmentCountAndSizes ==
  /\ [][(pc = "sl_start" /\ slCaller = "direct"
           /\ (~Exists(fs, slPath) \/ Size(fs, slPath) <= MAX_SINGLE_FILE_SIZE))
          => (slRet' = NoneRet /\ fs' = fs /\ chunkDir' = chunkDir)]_vars
  /\ [](SplitReturned =>
          LET s == Size(fs, slPath)
              n == Len(slRet.files)
          IN /\ s > MAX_SINGLE_FILE_SIZE
             /\ n = CeilDiv(s, CHUNK_SIZE)
             /\ \A i \in 1..n :
                  /\ slRet.files[i] = Frag(slPath.name, i - 1)
                  /\ Exists(fs, slRet.files[i])
                  /\ i < n => Size(fs, slRet.files[i]) = CHUNK_SIZE
             /\ Size(fs, slRet.files[n]) \in 1..CHUNK_SIZE
             /\ Size(fs, slRet.files[n]) = s - (n - 1) * CHUNK_SIZE)

\* C25 witness: a file of 2 * CHUNK_SIZE + 1 bytes was cut into three
\* fragments, the last of one byte.
C25_ThreeFragmentsLastShort ==
  /\ SplitReturned
  /\ Size(fs, slPath) = 2 * CHUNK_SIZE + 1
  /\ slRet.files = <<Frag(slPath.name, 0), Frag(slPath.name, 1),
                     Frag(slPath.name, 2)>>
  /\ Size(fs, Frag(slPath.name, 2)) = 1

\* upload_file refused a file that existed and was non-empty when called.
RefusedExistingFile ==
  /\ DeliverReturned /\ ~ufRet
  /\ Exists(ufFs0, ufPath) /\ Size(ufFs0, ufPath) > 0

\* C26: whenever upload_file returns false for a file that existed and was
\* non-empty when it was called, the original still exists afterwards, also
\* when cutting an oversize file into fragments failed.
C26_OriginalKeptOnFailure ==
  RefusedExistingFile => Exists(fs, ufPath)

\* C26 failing run: the cut of an oversize file failed, no request was
\* sent, upload_file returned false and the original is gone.
C26_OriginalLostOnSplitFailure ==
  /\ RefusedExistingFile /\ WasOversize
  /\ ufChunks = <<>> /\ ~ufNet
  /\ ~Exists(fs, ufPath)

\* The fragments on disk that belong to a file other than the one the
\* current upload_file call is delivering.
ForeignFragments(f) ==
  {p \in ChunkPaths : p.name # ufPath.name /\ Exists(f, p)}

\* C27: over any sequence of upload_file calls, no step of a call on one
\* file deletes or overwrites a fragment that belongs to another file of
\* the same directory: fragments left by an earlier, partially failed
\* delivery are still there after a later, fully successful one.
C27_ForeignFragmentsKept ==
  [][\A p \in ForeignFragments(fs) : fs'[p] = fs[p]]_vars

\* C27 failing run: the delivery of B failed and left fragments behind; the
\* later delivery of A succeeded in full, and the fragments of B that were
\* on disk when it began are gone.
C27_LeftoversWiped ==
  /\ pc = "uf_ret" /\ ufRet /\ ufPath = Orig("A") /\ ufChunks # <<>>
  /\ ubLog = <<<<"B", FALSE>>>>
  /\ ForeignFragments(ufFs0) # {}
  /\ ForeignFragments(fs) = {}
  /\ Exists(fs, Orig("B"))

\* The returned archives that contain file f: the bins holding f whose
\* archive was written, kept and returned.
ArchivesWith(f) ==
  {b \in 1..Len(binLog) :
     /\ Holds(b, f)
     /\ binLog[b].archive # NoArchive
     /\ f \in binLog[b].staged
     /\ \E k \in 1..Len(sdRet.files) : sdRet.files[k] = binLog[b].archive}

\* split_large_directory returned a list of archives.
ArchivesReturned == PackFinished /\ sdRet.kind = "list"

\* C28: whenever split_large_directory returns a list of archives, and has
\* therefore emptied the source tree, every nonzero-size file that was in
\* the source tree is contained in exactly one of the returned archives,
\* also when the staging of a bin failed or the archive of a bin was
\* rejected as oversize.
C28_EveryFileInOneArchive ==
  ArchivesReturned =>
    /\ srcFiles = {}
    /\ \A i \in 1..Len(sorted_files) :
         Cardinality(ArchivesWith(sorted_files[i])) = 1

\* C28 failing run: one bin could not be staged, another was archived; the
\* list of archives was returned, the source tree is empty and a file of
\* the failed bin is in no archive.
C28_FileInNoArchive ==
  /\ ArchivesReturned /\ srcFiles = {}
  /\ Len(binLog) >= 2 /\ Len(sdRet.files) >= 1
  /\ \E b \in 1..Len(binLog) :
       /\ binLog[b].staging \in {"nodir", "copyfail"}
       /\ \E j \in 1..Len(binLog[b].files) :
            ArchivesWith(binLog[b].files[j]) = {}

\* A direct call of _create_remote_directory on a relative path has
\* returned, and the store answered every one of its requests faithfully
\* (see StoreAnswer): no transport failure, no foreign status.
FaithfulCallReturned ==
  /\ pc = "idle" /\ mkCaller = "direct" /\ calls > 0
  /\ mkFaithful
  /\ (mkDir = <<>> \/ mkDir[1] # Root)

\* C29: against a store that answers "created" when the parent exists,
\* "conflict" when the parent is missing and "already exists" when the
\* collection exists, with no transport failure, _create_remote_directory
\* returns true for every relative path and every initial set of remote
\* collections, and afterwards the collection and all of its ancestors
\* exist remotely; nothing else was created.
C29_ProvisionsWholeChain ==
  FaithfulCallReturned =>
    /\ mkRet
    /\ ~IsTrivialDir(mkDir) =>
         /\ Ancestors(mkDir) \subseteq remoteDirs
         /\ remoteDirs = mkDirs0 \cup Ancestors(mkDir)
    /\ IsTrivialDir(mkDir) => (remoteDirs = mkDirs0 /\ nMkcol = 0)

\* C29 witness: a path of three components none of which existed was
\* provisioned with five requests: conflict, conflict, created, created,
\* created.
C29_ThreeLevelsFromNothing ==
  /\ FaithfulCallReturned /\ mkRet
  /\ Len(mkDir) = 3 /\ mkDirs0 = {}
  /\ remoteDirs = Ancestors(mkDir)
  /\ nMkcol = 5

\* Both providers hold the file of the current delivery.
StoredByBoth == storedBy = {"primary", "secondary"}

\* C30 as stated: one delivery stores a file with at most one provider; a
\* secondary endpoint is handed the file only if no primary PUT for it was
\* stored by the primary provider, also when the response to the PUT that
\* stored it was lost to a timeout or a connection error.
C30_AtMostOneProvider ==
  /\ [](DeliveringValidFile => Cardinality(storedBy) <= 1)
  /\ [][(DeliveringValidFile /\ PostIssued) => "primary" \notin storedBy]_vars

\* C30 amended: a secondary endpoint is handed the file only if no primary
\* PUT for it was answered 201 or 204 and the primary tier used all its
\* attempts; a delivery acknowledged by the primary stores the file with
\* the primary alone; both providers hold the file only when the primary
\* stored it and the response was lost to a timeout or a connection error;
\* and a delivery that returns true has stored the file with a provider.
C30_OneProviderUnlessResponseLost ==
  /\ [](DeliveringValidFile =>
          /\ putOK => storedBy = {"primary"}
          /\ StoredByBoth => (~putOK /\ nPut >= 1 /\ nPost >= 1)
          /\ (pc \in {"us_ret", "done"} /\ usRet) => storedBy # {})
  /\ [][(DeliveringValidFile /\ PostIssued) =>
          (~putOK /\ ~tierRet /\ pc = "gf_post")]_vars
  /\ [][(DeliveringValidFile /\ "primary" \notin storedBy
           /\ "primary" \in storedBy' /\ ~putOK') =>
          lastResp' \in {"timeout", "connerr"}]_vars

\* C30 witness: the primary stored the file but every answer was lost, the
\* secondary accepted it, and the delivery returned true with the file
\* held by both providers.
C30_StoredTwice ==
  /\ DeliveringValidFile /\ pc = "us_ret" /\ usRet
  /\ StoredByBoth /\ ~putOK /\ postOK
  /\ nPut = RETRY_COUNT

====
